---- MODULE Spec2Model ----
(***************************************************************************)
(* A model of the tiingo_data_pull incremental-sync pipeline:              *)
(*   services/pipeline.py      TiingoToNotionPipeline.sync                 *)
(*   clients/tiingo_client.py  TiingoClient, _ThreadLocalSessionProvider   *)
(*   integrations/notion_client.py  NotionClient (query / create)          *)
(*   clients/drive_client.py   GoogleDriveClient.upload_json               *)
(*   utils/batching.py, utils/file_io.py, models/price_bar.py              *)
(***************************************************************************)
EXTENDS Integers, Sequences, FiniteSets, TLC

(***************************************************************************)
(* Bounds of the model.                                                    *)
(***************************************************************************)
MaxTickers == 2        \* longest ticker list handed to sync / the bulk fetch
MaxBatchSize == 2      \* largest PipelineConfig.batch_size tried
MaxDate == 2           \* trading days are 1..MaxDate
MaxBars == 2           \* longest provider payload for one ticker
MaxRuns == 2           \* number of sync invocations in one behaviour
MaxPoolWorkers == 2    \* largest max_workers tried when the bulk fetch is called directly
MaxRows == 3           \* longest bar sequence handed to create_price_rows directly
MaxStored == 2         \* most destination rows present before a direct filter call
MaxPageSize == 2       \* largest page_size tried when the filter is called directly
MaxNotionBatch == 2    \* largest NotionClient batch_size tried in a direct create call
MaxPagesTried == 2     \* largest max_pages tried when a query is called directly
MaxItems == 7          \* longest input when the batching helpers are driven directly
MaxChunkSize == 3      \* largest size tried then
MaxPayload == 3        \* longest provider response when one ticker's fetch is studied
MaxUploads == 3        \* upload_json calls in one behaviour when called directly
MaxRetries == 3       \* largest max_retries tried for the standalone pipeline
MaxRequests == 4      \* page requests explored against a destination that never ends

(***************************************************************************)
(* Program constants.                                                      *)
(***************************************************************************)
DefaultMaxWorkers == 10
DefaultNotionBatchSize == 10
DefaultPageSize == 50
DefaultMaxPages == 4
DefaultMaxRetries == 3
NoFile == 0
DefaultFolder == "folder"

\* cli.run: the environment variables it requires, in the order it asks.
RequiredEnv == <<"TIINGO_API_KEY", "NOTION_API_KEY", "NOTION_DATABASE_ID",
                 "GOOGLE_SERVICE_ACCOUNT_FILE", "GOOGLE_DRIVE_FOLDER_ID">>
EnvValues == {"unset", "empty", "set"}

\* No helper is called on its own.
NoArgs == <<>>
NoOutcome == <<>>
FullEnv == [key \in {RequiredEnv[i] : i \in 1..Len(RequiredEnv)} |-> "set"]
NoSession == 0
NoTask == 0

Tickers == {"AAPL", "MSFT"}
Dates == 1..MaxDate

\* Optional[T]: the empty set is None, {x} is the value x.
Optional(S) == {{}} \cup {{x} : x \in S}

\* date.isoformat(): the day number rendered as the ISO string of that day.
IsoDates == <<"2024-01-01", "2024-01-02", "2024-01-03", "2024-01-04", "2024-01-05">>
isoformat(d) == IsoDates[d]

\* Strings a destination row may carry in its date property: date-only rows
\* and a row whose date property holds a datetime.
DateTimeString == "2024-01-01T00:00:00.000+00:00"
StoredStrings == {isoformat(d) : d \in Dates} \cup {DateTimeString}

\* The day a stored string denotes for the destination's own range filter.
StoredDay(s) == IF s = DateTimeString THEN 1 ELSE CHOOSE d \in 1..Len(IsoDates) : IsoDates[d] = s

(***************************************************************************)
(* Ordered mappings (Python dict): a sequence of <<key, value>> pairs with *)
(* distinct keys, in insertion order.                                      *)
(***************************************************************************)
DictKeys(d) == [i \in 1..Len(d) |-> d[i][1]]
DictHas(d, k) == \E i \in 1..Len(d) : d[i][1] = k
DictGet(d, k) == d[CHOOSE i \in 1..Len(d) : d[i][1] = k][2]
DictSet(d, k, v) ==
    IF DictHas(d, k)
    THEN [i \in 1..Len(d) |-> IF d[i][1] = k THEN <<k, v>> ELSE d[i]]
    ELSE Append(d, <<k, v>>)

Range(s) == {s[i] : i \in 1..Len(s)}
SeqsUpTo(S, n) == UNION {[1..k -> S] : k \in 0..n}

(***************************************************************************)
(* models/price_bar.py                                                     *)
(***************************************************************************)
\* A provider payload item: its "date" is a datetime (day, hour).
RawItems(hours) == [day : Dates, hour : hours, close : {1}]

\* PriceBar.from_tiingo_payload: parse the datetime, keep its date().
from_tiingo_payload(ticker, item) ==
    [ticker |-> ticker, date |-> item.day, close |-> item.close]

\* PriceBar.to_json_dict
to_json_dict(price) ==
    [ticker |-> price.ticker, date |-> isoformat(price.date), close |-> price.close]

\* Variant: the list is left in the order of the response.
InsertAtEnd(sorted, bar) == Append(sorted, bar)

\* list.sort(key=lambda item: item.date): stable, ascending by date.
InsertByDate(sorted, bar) ==
    LET k == Cardinality({i \in 1..Len(sorted) : sorted[i].date <= bar.date})
    IN SubSeq(sorted, 1, k) \o <<bar>> \o SubSeq(sorted, k + 1, Len(sorted))

RECURSIVE SortByDate(_)
SortByDate(s) ==
    IF s = <<>> THEN <<>>
    ELSE InsertByDate(SortByDate(SubSeq(s, 1, Len(s) - 1)), s[Len(s)])

(***************************************************************************)
(* State.                                                                  *)
(***************************************************************************)
VARIABLES
    \* inputs and configuration
    tickers,            \* sync(tickers): the ticker sequence
    batch_size,         \* PipelineConfig.batch_size
    source,             \* provider data: ticker -> payload (sequence of raw items)
    start_date,         \* Optional[date]
    end_date,           \* Optional[date]
    session_template,   \* TiingoClient(session=...): NoSession or a session id
    session_factory,    \* TiingoClient(session_factory=...): given or not
    max_workers,        \* fetch_price_history_bulk(max_workers=...)
    notion_batch_size,  \* NotionClient(batch_size=...)
    page_size,          \* NotionClient(page_size=...)
    max_pages,          \* clients.NotionClient(max_pages=...)
    runaway,            \* the destination reports has_more on every response
    chunk_impl,         \* the batching helper in use: "chunked" or "_chunked"
    max_retries,        \* standalone PipelineConfig.max_retries
    drive_folder_id,    \* the Drive folder identifier uploads are given ("" when empty)
    drive_impl,         \* the uploader in use: "client" (GoogleDriveClient) or "helper"
    env,                \* os.environ: key -> "unset", "empty" or "set"
    given,              \* the arguments of a helper that is called on its own
    \* the main thread
    pc,                 \* position of the main thread
    caller,             \* who called the operation in progress: "sync" or "direct"
    outcome,            \* what a helper called on its own returned or raised
    existing_file_id,   \* upload_json: what _find_existing_file returned, NoFile for None
    run,                \* number of sync invocations started
    dry_run,
    pos,                \* tickers consumed by chunked so far
    groups,             \* the groups chunked has yielded so far
    batch_no,           \* number of the batch in progress within the run
    ticker_batch,
    prices_by_ticker,
    filtered,
    uploaded_files,
    json_path,
    \* fetch_price_history_bulk
    tickers_list,
    futures,            \* submitted work items: [ticker, state, result, batch]
    threads,            \* the executor's threads, in start order: [task, session]
    idle_sem,           \* ThreadPoolExecutor._idle_semaphore
    results,
    yielded,            \* futures as_completed has yielded
    bulk_exc,           \* the as_completed loop left by an exception
    sessions,           \* live session objects: [kind, adapters, users]
    \* query_existing_dates / _filter_new_prices
    filter_pos,
    seen_dates,
    start_cursor,
    pages_fetched,      \* clients.NotionClient.fetch_existing_dates
    \* create_price_rows
    persist_pos,
    prices,             \* argument of create_price_rows
    chunk_start,        \* first index of the chunk being gathered
    gather,             \* results of the chunk's tasks: "pending", "error" or a page id
    created_ids,
    \* the world
    notion_rows,        \* destination rows in creation order: [id, ticker, date]
    files,              \* local disk: timestamp -> [open, content]
    clock,              \* UTC second of the last export write, counted from the first
    drive,              \* names of the objects created in the Drive folder
    \* history, for stating properties
    trace

inputVars == <<tickers, batch_size, source, start_date, end_date, session_template,
               session_factory, max_workers, notion_batch_size, page_size, max_pages,
               runaway, chunk_impl, max_retries, drive_folder_id,
               drive_impl, env, given>>
syncVars == <<run, dry_run, pos, groups, batch_no, ticker_batch, prices_by_ticker, filtered,
              uploaded_files, json_path>>
bulkVars == <<tickers_list, futures, threads, idle_sem, results, yielded, bulk_exc,
              sessions>>
filterVars == <<filter_pos, seen_dates, start_cursor, pages_fetched>>
createVars == <<persist_pos, prices, chunk_start, gather, created_ids>>
worldVars == <<notion_rows, files, clock, drive>>
vars == <<inputVars, pc, caller, outcome, existing_file_id, syncVars, bulkVars, filterVars,
          createVars, worldVars, trace>>

(***************************************************************************)
(* History kept for stating properties; no action reads it.                *)
(***************************************************************************)
\* Outside effects of cli.run: price-source, record-store and storage calls,
\* export files written.
NoEffects == [price |-> 0, record |-> 0, storage |-> 0, exports |-> 0]

NoOps == [queries |-> 0, submits |-> 0, writes |-> 0, uploads |-> 0, recorded |-> 0]

Trace0 ==
    [batch |-> NoOps,          \* gateway calls and export writes of the batch in progress
     in_run |-> NoOps,         \* the same, of the run in progress
     row_failures |-> 0,       \* row creations of the run that failed
     bulk_outcome |-> "none",  \* how the last bulk fetch ended: "returned" / "raised"
     left_behind |-> {},       \* the fetches not finished when a failure left its loop
     raised_at |-> "none",     \* stage whose failure ended the run
     returned |-> FALSE,       \* sync handed its result list to the caller
     create_raised |-> FALSE,  \* a create_price_rows call of the run raised
     interrupted |-> FALSE,    \* ... because the await of gather was cancelled
     submitted |-> <<>>,       \* submissions of the create_price_rows call in progress,
                               \* in order: [index of the bar, id answered or 0]
     requests |-> 0,           \* page requests of the existing-dates query in progress or last ended
     query_failed |-> FALSE,   \* a page request of that query failed
     handed |-> {},            \* {the set that query returned}, {} while it has returned none
     first_pass |-> {},        \* {what the first of two calls of the filter returned}
     calls |-> <<>>,           \* standalone pipeline: the fetcher's calls, in order
     run_effects |-> NoEffects, \* what cli.run has done to the outside so far
     upload_calls |-> 0,       \* direct upload_json calls started
     drive_requests |-> 0,     \* remote Drive requests issued by the upload in progress
     drive_before |-> <<>>,    \* the Drive objects when the upload in progress was called
     log |-> <<>>]             \* one summary per finished run

Bump(t, field) ==
    [t EXCEPT !.batch[field] = @ + 1, !.in_run[field] = @ + 1]

RunSummary(t, ending, isDry) ==
    [ending |-> ending, dry |-> isDry, clean |-> t.row_failures = 0]

\* The run ends by raising at `stage`.
Raise(t, stage) ==
    [t EXCEPT !.raised_at = stage,
              !.log = Append(@, RunSummary(t, "raised", dry_run))]

(***************************************************************************)
(* clients/tiingo_client.py: _ThreadLocalSessionProvider                   *)
(***************************************************************************)
NewSessionId == Len(sessions) + 1

\* TiingoClient.__init__: with neither a session nor a factory, the factory
\* is requests.Session.
HasFactory == session_factory \/ session_template = NoSession

\* What a call of the factory may hand back: a fresh session, or None when
\* the factory is the caller's own.
FactoryResults == IF session_factory THEN {"session", "none"} ELSE {"session"}

\* Variant: the template itself is handed out instead of a copy of it.
clone_session_shared == [id |-> session_template, kind |-> "clone", adapters |-> session_template]

\* _clone_session: a new Session carrying the template's settings; the
\* template's adapter objects are mounted on the clone.
clone_session == [id |-> NewSessionId, kind |-> "clone", adapters |-> session_template]

\* _build_session, given what the factory returned (if it was called).
build_session(made) ==
    IF HasFactory /\ made = "session"
    THEN [id |-> NewSessionId, kind |-> "factory", adapters |-> NewSessionId]
    ELSE IF session_template # NoSession
         THEN clone_session
         ELSE [id |-> NewSessionId, kind |-> "plain", adapters |-> NewSessionId]

\* Variant: nothing is kept on the thread, every call builds a session.
get_session_always_builds(k, made) == build_session(made)

\* _ThreadLocalSessionProvider.get for executor thread k: the thread's own
\* session, built on first use.
get_session(k, made) ==
    IF threads[k].session # NoSession
    THEN [id |-> threads[k].session, kind |-> "reused", adapters |-> NoSession]
    ELSE build_session(made)

\* The session objects after thread `tid` issued a request on session `s`.
UseSession(s, tid) ==
    IF s.id > Len(sessions)
    THEN Append(sessions, [kind |-> s.kind, adapters |-> s.adapters, users |-> {tid}])
    ELSE [sessions EXCEPT ![s.id].users = @ \cup {tid}]

(***************************************************************************)
(* clients/tiingo_client.py: TiingoClient.fetch_price_history              *)
(***************************************************************************)
InRange(d) ==
    /\ \A s \in start_date : s <= d
    /\ \A e \in end_date : d <= e

\* The provider's response body for a ticker: its items within the range.
ProviderPayload(ticker) == SelectSeq(source[ticker], LAMBDA item : InRange(item.day))

\* The value fetch_price_history returns on a successful response.
fetch_price_history(ticker) ==
    LET payload == ProviderPayload(ticker)
    IN SortByDate([i \in 1..Len(payload) |-> from_tiingo_payload(ticker, payload[i])])

(***************************************************************************)
(* clients/tiingo_client.py: TiingoClient.fetch_price_history_bulk         *)
(***************************************************************************)
Finished(f) == futures[f].state \in {"done", "failed"}

\* Variant: shutdown(wait=False), the executor is left without joining.
ExecutorNotJoined == TRUE

\* ThreadPoolExecutor.__exit__: shutdown(wait=True) returns once every
\* submitted work item has run.
ExecutorJoined == \A f \in 1..Len(futures) : Finished(f)

\* Variant: a failed fetch is passed over instead of re-raised.
ResultNeverRaises(f) == FALSE

\* future.result() re-raises the exception of a failed fetch.
ResultRaises(f) == futures[f].state = "failed"

\* The sessions alive when no executor thread is: the template, if any
\* (a thread's own session goes with the thread).
NoThreadSessions == SelectSeq(sessions, LAMBDA s : s.kind = "template")

\* The call starts: tickers_list = list(tickers), results = {}, a new executor.
BulkStarts(batch) ==
    /\ tickers_list' = batch
    /\ futures' = <<>>
    /\ threads' = <<>>
    /\ idle_sem' = 0
    /\ results' = <<>>
    /\ yielded' = {}
    /\ bulk_exc' = FALSE
    /\ sessions' = NoThreadSessions

\* Variant: the pool starts a thread for every work item.
pool_full_never == FALSE

\* ThreadPoolExecutor(max_workers=max_workers): no thread is started once
\* max_workers threads exist.
pool_full == Len(threads) >= max_workers

\* executor.submit for the next ticker of tickers_list; a thread is started
\* unless one is idle or max_workers threads exist.
Submit ==
    /\ pc = "bulk_submit"
    /\ LET i == Len(futures) + 1
           spawn == idle_sem = 0 /\ ~pool_full
       IN /\ futures' = Append(futures, [ticker |-> tickers_list[i], state |-> "pending",
                                         result |-> <<>>, batch |-> batch_no])
          /\ idle_sem' = IF idle_sem > 0 THEN idle_sem - 1 ELSE 0
          /\ threads' = IF spawn
                        THEN Append(threads, [task |-> NoTask, session |-> NoSession])
                        ELSE threads
          /\ pc' = IF i = Len(tickers_list) THEN "bulk_wait" ELSE "bulk_submit"
    /\ UNCHANGED <<inputVars, caller, outcome, existing_file_id, syncVars, tickers_list, results, yielded, bulk_exc,
                   sessions, filterVars, createVars, worldVars, trace>>

\* An idle executor thread takes the oldest queued work item and starts
\* fetch_price_history: it gets its session and issues the request.
WorkerTake(k) ==
    /\ threads[k].task = NoTask
    /\ \E f \in 1..Len(futures) :
        /\ futures[f].state = "pending"
        /\ \A g \in 1..(f - 1) : futures[g].state # "pending"
        /\ \E made \in FactoryResults :
            LET s == get_session(k, made)
            IN /\ sessions' = UseSession(s, k)
               /\ threads' = [threads EXCEPT ![k].task = f, ![k].session = s.id]
        /\ futures' = [futures EXCEPT ![f].state = "running"]
    /\ UNCHANGED <<inputVars, pc, caller, outcome, existing_file_id, syncVars, tickers_list, idle_sem, results, yielded,
                   bulk_exc, filterVars, createVars, worldVars, trace>>

\* The request of thread k ends: the response parses into sorted bars, or
\* the fetch raises (transport error, HTTP status, malformed payload).
WorkerFinish(k) ==
    /\ threads[k].task # NoTask
    /\ LET f == threads[k].task
       IN \E ok \in BOOLEAN :
            futures' = [futures EXCEPT
                          ![f].state = IF ok THEN "done" ELSE "failed",
                          ![f].result = IF ok THEN fetch_price_history(futures[f].ticker)
                                        ELSE <<>>]
    /\ threads' = [threads EXCEPT ![k].task = NoTask]
    /\ idle_sem' = idle_sem + 1
    /\ UNCHANGED <<inputVars, pc, caller, outcome, existing_file_id, syncVars, tickers_list, results, yielded, bulk_exc,
                   sessions, filterVars, createVars, worldVars, trace>>

\* One turn of the as_completed loop: a finished future is yielded and its
\* result stored under its ticker, or its exception leaves the loop.
Collect ==
    /\ pc = "bulk_wait"
    /\ \E f \in 1..Len(futures) :
        /\ Finished(f)
        /\ f \notin yielded
        /\ yielded' = yielded \cup {f}
        /\ IF ResultRaises(f)
           THEN /\ bulk_exc' = TRUE
                /\ results' = results
                /\ pc' = "bulk_exit"
                /\ trace' = [trace EXCEPT !.left_behind =
                                 {g \in 1..Len(futures) : ~Finished(g)}]
           ELSE /\ bulk_exc' = FALSE
                /\ results' = DictSet(results, futures[f].ticker, futures[f].result)
                /\ pc' = IF yielded' = 1..Len(futures) THEN "bulk_exit" ELSE "bulk_wait"
                /\ trace' = trace
    /\ UNCHANGED <<inputVars, caller, outcome, existing_file_id, syncVars, tickers_list, futures, threads, idle_sem,
                   sessions, filterVars, createVars, worldVars>>

(***************************************************************************)
(* integrations/notion_client.py: NotionClient.query_existing_dates        *)
(***************************************************************************)
Min(a, b) == IF a <= b THEN a ELSE b
Max(a, b) == IF a >= b THEN a ELSE b

\* NotionClient.__init__: self._page_size = max(1, min(page_size, 100))
PageSizeLimit == 100
effective_page_size == Max(1, Min(page_size, PageSizeLimit))

\* NotionClient.__init__: self._batch_size = max(1, batch_size)
effective_batch_size == Max(1, notion_batch_size)

\* _build_filter, as the destination applies it: title equals the ticker
\* and the date property lies within the given bounds.
MatchesFilter(row, ticker) ==
    /\ row.ticker = ticker
    /\ \/ start_date = {} /\ end_date = {}
       \/ row.date # "" /\ InRange(StoredDay(row.date))

Matching(ticker) == SelectSeq(notion_rows, LAMBDA row : MatchesFilter(row, ticker))

\* _extract_date over the pages of one response; `if date_value` drops
\* pages without a usable date.
ExtractDates(page) == {page[i].date : i \in 1..Len(page)} \ {""}

\* Variant: the date object is looked up among the stored strings, which
\* never matches.
new_prices_by_object(fetched, existing_dates) == fetched

\* not in existing_dates, over the fetched bars in order.
new_prices(fetched, existing_dates) ==
    SelectSeq(fetched, LAMBDA price : isoformat(price.date) \notin existing_dates)

\* any(filtered.values())
AnyPrices(mapping) == \E i \in 1..Len(mapping) : mapping[i][2] # <<>>

\* Variant: the upload placed before the export is written.
export_pc_upload_first == "upload"

\* Where sync goes to produce the export: write_prices_by_ticker.
export_pc == "write_open"

\* Variant: a batch without new bars is not skipped.
AfterFilterNoSkip(mapping) == IF dry_run THEN export_pc ELSE "persist"

\* Where sync goes once a batch is filtered.
AfterFilter(mapping) ==
    IF ~AnyPrices(mapping) THEN "next_batch"
    ELSE IF dry_run THEN export_pc ELSE "persist"

\* Variant: the set of dates lives on the client and is not emptied
\* between queries.
kept_seen_dates(left) == left

\* query_existing_dates starts from `seen_dates = set()` on every call.
fresh_seen_dates(left) == {}

\* Page requests the query in progress has issued; a query that has handed
\* back its set is over.
QueryRequests == IF trace.handed # {} THEN 0 ELSE trace.requests

\* The history after one more page request of the query in progress.
Asked(t) == [t EXCEPT !.requests = QueryRequests + 1, !.handed = {}]

\* Variant: a failed page request ends the loop, the dates gathered so far
\* are returned.
query_error_breaks == FALSE

\* query_existing_dates: the handler of a failed request logs and re-raises.
query_error_raises == TRUE

\* One page request of query_existing_dates for the ticker being filtered;
\* the last page ends the query and the ticker's bars are filtered.
QueryPage ==
    /\ pc = "query"
    /\ runaway => QueryRequests < MaxRequests
    /\ LET ticker == prices_by_ticker[filter_pos][1]
           matching == Matching(ticker)
           last == Min(start_cursor + effective_page_size, Len(matching))
           page == SubSeq(matching, start_cursor + 1, last)
           has_more == runaway \/ last < Len(matching)
           sent == Asked(Bump(trace, "queries"))
       IN \E ok \in BOOLEAN :
            LET seen == IF ok THEN seen_dates \cup ExtractDates(page) ELSE seen_dates
                mapping == DictSet(filtered, ticker,
                                   new_prices(prices_by_ticker[filter_pos][2], seen))
                told == [sent EXCEPT !.query_failed = ~ok]
            IN IF ~ok /\ query_error_raises
               THEN /\ pc' = "raised"
                    /\ trace' = IF caller = "sync" THEN Raise(told, "query") ELSE told
                    /\ UNCHANGED <<filtered, filterVars>>
               ELSE IF ok /\ has_more
               THEN /\ seen_dates' = seen
                    /\ start_cursor' = last
                    /\ trace' = told
                    /\ UNCHANGED <<pc, filtered, filter_pos, pages_fetched>>
               ELSE /\ filtered' = mapping
                    /\ seen_dates' = fresh_seen_dates(seen)
                    /\ start_cursor' = 0
                    /\ filter_pos' = filter_pos + 1
                    /\ trace' = [told EXCEPT !.handed = {seen}]
                    /\ pc' = IF filter_pos < Len(prices_by_ticker) THEN "query"
                             ELSE IF caller = "sync" THEN AfterFilter(mapping)
                             ELSE "returned"
                    /\ UNCHANGED pages_fetched
    /\ persist_pos' = 1
    /\ UNCHANGED <<inputVars, caller, outcome, existing_file_id, run, dry_run, pos, groups, batch_no, ticker_batch,
                   prices_by_ticker, uploaded_files, json_path, bulkVars, prices, chunk_start,
                   gather, created_ids, worldVars>>

(***************************************************************************)
(* clients/notion_client.py: NotionClient.fetch_existing_dates             *)
(***************************************************************************)
\* One turn of `while has_more and pages_fetched < self._max_pages` for the
\* ticker the method was called with: a page request whose status error
\* raises, then the test of the loop again; the set is returned when the
\* test fails.
FetchExistingPage ==
    /\ pc = "fetch_existing"
    /\ LET matching == Matching(tickers_list[1])
           last == Min(start_cursor + effective_page_size, Len(matching))
           page == SubSeq(matching, start_cursor + 1, last)
           has_more == runaway \/ last < Len(matching)
           seen == seen_dates \cup ExtractDates(page)
           sent == Asked(trace)
       IN IF pages_fetched >= max_pages
          THEN /\ pc' = "returned"
               /\ trace' = [trace EXCEPT !.handed = {seen_dates}]
               /\ UNCHANGED <<seen_dates, start_cursor, pages_fetched>>
          ELSE \E ok \in BOOLEAN :
                 IF ~ok
                 THEN /\ pc' = "raised"
                      /\ trace' = [sent EXCEPT !.query_failed = TRUE]
                      /\ UNCHANGED <<seen_dates, start_cursor, pages_fetched>>
                 ELSE /\ seen_dates' = seen
                      /\ start_cursor' = last
                      /\ pages_fetched' = pages_fetched + 1
                      /\ IF has_more /\ pages_fetched + 1 < max_pages
                         THEN /\ pc' = pc
                              /\ trace' = sent
                         ELSE /\ pc' = "returned"
                              /\ trace' = [sent EXCEPT !.handed = {seen}]
    /\ UNCHANGED <<inputVars, caller, outcome, existing_file_id, syncVars, bulkVars, filter_pos, createVars, worldVars>>

\* The executor is left: every work item has run and the threads are
\* joined; the caller gets the mapping, or the exception of the loop.
BulkExit ==
    /\ pc = "bulk_exit"
    /\ ExecutorJoined
    /\ threads' = <<>>
    /\ idle_sem' = 0
    /\ sessions' = NoThreadSessions
    /\ IF bulk_exc
       THEN /\ pc' = "raised"
            /\ trace' = IF caller = "sync"
                        THEN Raise([trace EXCEPT !.bulk_outcome = "raised"], "fetch")
                        ELSE [trace EXCEPT !.bulk_outcome = "raised"]
            /\ UNCHANGED <<prices_by_ticker, filtered, filterVars>>
       ELSE /\ trace' = [trace EXCEPT !.bulk_outcome = "returned"]
            /\ IF caller = "sync"
               THEN /\ prices_by_ticker' = results
                    /\ filtered' = <<>>
                    /\ filter_pos' = 1
                    /\ seen_dates' = {}
                    /\ start_cursor' = 0
                    /\ pages_fetched' = 0
                    /\ pc' = "query"
               ELSE /\ pc' = "returned"
                    /\ UNCHANGED <<prices_by_ticker, filtered, filterVars>>
    /\ UNCHANGED <<inputVars, caller, outcome, existing_file_id, run, dry_run, pos, groups, batch_no, ticker_batch,
                   uploaded_files, json_path, tickers_list, futures, results, yielded,
                   bulk_exc, createVars, worldVars>>

(***************************************************************************)
(* integrations/notion_client.py: NotionClient.create_price_rows           *)
(***************************************************************************)
\* chunked(prices, self._batch_size): last index of the chunk starting at `first`.
ChunkEnd(first) == Min(first + effective_batch_size - 1, Len(prices))

PendingTasks(first) == [i \in 1..(ChunkEnd(first) - first + 1) |-> [st |-> "pending", id |-> 0]]

\* Variant: the loop lacks its `continue`, a failed row yields an id too.
collect_ids_all(done) == [i \in 1..Len(done) |-> done[i].id]

\* The loop over zip(batch, results): the ids of the results that are not
\* exceptions, in order.
collect_ids(done) ==
    LET created == SelectSeq(done, LAMBDA r : r.st = "ok")
    IN [i \in 1..Len(created) |-> created[i].id]

\* _price_properties / pages.create: the row the destination stores.
NewRow(price) ==
    [id |-> Len(notion_rows) + 1, ticker |-> price.ticker, date |-> isoformat(price.date)]

\* The call starts on `bars`: the first chunk's tasks are handed to gather.
CreateStarts(bars) ==
    /\ prices' = bars
    /\ created_ids' = <<>>
    /\ chunk_start' = 1
    /\ gather' = [i \in 1..Min(effective_batch_size, Len(bars)) |-> [st |-> "pending", id |-> 0]]

\* Variant: the handler logs and goes on with the next ticker.
persist_failure_swallowed == "persist"

\* Where sync goes when create_price_rows raises: the handler logs and re-raises.
persist_failure_pc == "raised"

\* sync, persist stage: the next ticker of filtered.items() with bars is
\* handed to create_price_rows; after the last one the export is written.
PersistNext ==
    /\ pc = "persist"
    /\ LET rest == {i \in persist_pos..Len(filtered) : filtered[i][2] # <<>>}
       IN IF rest = {}
          THEN /\ pc' = export_pc
               /\ UNCHANGED <<createVars, trace>>
          ELSE LET i == CHOOSE j \in rest : \A k \in rest : j <= k
               IN /\ persist_pos' = i
                  /\ CreateStarts(filtered[i][2])
                  /\ trace' = [trace EXCEPT !.submitted = <<>>]
                  /\ pc' = "gather"
    /\ UNCHANGED <<inputVars, caller, outcome, existing_file_id, syncVars, bulkVars, filterVars, worldVars>>

\* One task of the gathered chunk runs _create_price_page: the destination
\* stores the row and answers with its id, or the request fails.
RowCreate(i) ==
    /\ pc = "gather"
    /\ i \in 1..Len(gather)
    /\ gather[i].st = "pending"
    /\ LET index == chunk_start + i - 1
           row == NewRow(prices[index])
           sent == Bump(trace, "submits")
       IN \E ok \in BOOLEAN :
            IF ok
            THEN /\ notion_rows' = Append(notion_rows, row)
                 /\ gather' = [gather EXCEPT ![i] = [st |-> "ok", id |-> row.id]]
                 /\ trace' = [sent EXCEPT !.submitted =
                                 Append(@, [index |-> index, id |-> row.id])]
            ELSE /\ notion_rows' = notion_rows
                 /\ gather' = [gather EXCEPT ![i] = [st |-> "error", id |-> 0]]
                 /\ trace' = [sent EXCEPT !.row_failures = @ + 1, !.submitted =
                                 Append(@, [index |-> index, id |-> 0])]
    /\ UNCHANGED <<inputVars, pc, caller, outcome, existing_file_id, syncVars, bulkVars, filterVars, persist_pos, prices,
                   chunk_start, created_ids, files, clock, drive>>

\* gather returns the chunk's results: ids are collected, then the next
\* chunk is gathered or the call returns created_ids.
GatherDone ==
    /\ pc = "gather"
    /\ \A i \in 1..Len(gather) : gather[i].st # "pending"
    /\ created_ids' = created_ids \o collect_ids(gather)
    /\ IF ChunkEnd(chunk_start) < Len(prices)
       THEN /\ chunk_start' = ChunkEnd(chunk_start) + 1
            /\ gather' = PendingTasks(ChunkEnd(chunk_start) + 1)
            /\ UNCHANGED <<pc, persist_pos>>
       ELSE /\ gather' = <<>>
            /\ chunk_start' = chunk_start
            /\ persist_pos' = persist_pos + 1
            /\ pc' = IF caller = "sync" THEN "persist" ELSE "returned"
    /\ UNCHANGED <<inputVars, caller, outcome, existing_file_id, syncVars, bulkVars, filterVars, prices, worldVars, trace>>

\* The await of gather is left by an exception that is not a row's own
\* (the awaiting task is cancelled): create_price_rows raises.
GatherRaise ==
    /\ pc = "gather"
    /\ pc' = IF caller = "sync" THEN persist_failure_pc ELSE "raised"
    /\ LET seen == [trace EXCEPT !.create_raised = TRUE, !.interrupted = TRUE]
       IN trace' = IF caller = "sync" THEN Raise(seen, "persist") ELSE seen
    /\ persist_pos' = persist_pos + 1
    /\ gather' = <<>>
    /\ UNCHANGED <<inputVars, caller, outcome, existing_file_id, syncVars, bulkVars, filterVars, prices, chunk_start,
                   created_ids, worldVars>>

(***************************************************************************)
(* clients/notion_client.py: NotionClient.create_price_pages               *)
(***************************************************************************)
\* Variant: a failed post is skipped and the loop goes on.
post_failure_skipped == "pages_post"

\* response.raise_for_status() inside the loop: the failure leaves the call.
post_failure_pc == "pages_raised"

\* The call starts on `prices`: created_ids = [], the thread's session is
\* taken, and the loop begins, or the empty list is returned at once.
CreatePagesCalled ==
    /\ pc = "pages_idle"
    /\ created_ids' = <<>>
    /\ persist_pos' = 1
    /\ pc' = IF prices = <<>> THEN "pages_returned" ELSE "pages_post"
    /\ outcome' = IF prices = <<>> THEN [kind |-> "returned", ids |-> <<>>] ELSE outcome
    /\ trace' = [trace EXCEPT !.submitted = <<>>]
    /\ UNCHANGED <<inputVars, caller, existing_file_id, syncVars, bulkVars, filterVars, prices,
                   chunk_start, gather, worldVars>>

\* One turn of `for price in prices`: the page is posted; the destination
\* stores the row and its id joins created_ids, or the post fails and
\* raise_for_status raises. After the last bar created_ids is returned.
PagePost ==
    /\ pc = "pages_post"
    /\ persist_pos <= Len(prices)
    /\ LET row == NewRow(prices[persist_pos])
       IN \E ok \in BOOLEAN :
            IF ok
            THEN /\ notion_rows' = Append(notion_rows, row)
                 /\ created_ids' = Append(created_ids, row.id)
                 /\ trace' = [trace EXCEPT !.submitted =
                                 Append(@, [index |-> persist_pos, id |-> row.id])]
                 /\ pc' = IF persist_pos = Len(prices) THEN "pages_returned" ELSE "pages_post"
                 /\ outcome' = IF persist_pos = Len(prices)
                               THEN [kind |-> "returned", ids |-> created_ids']
                               ELSE outcome
            ELSE /\ notion_rows' = notion_rows
                 /\ created_ids' = created_ids
                 /\ trace' = [trace EXCEPT !.submitted =
                                 Append(@, [index |-> persist_pos, id |-> 0])]
                 /\ pc' = post_failure_pc
                 /\ outcome' = IF post_failure_pc = "pages_raised"
                               THEN [kind |-> "HTTPError"] ELSE outcome
    /\ persist_pos' = persist_pos + 1
    /\ UNCHANGED <<inputVars, caller, existing_file_id, syncVars, bulkVars, filterVars, prices,
                   chunk_start, gather, files, clock, drive>>

(***************************************************************************)
(* utils/file_io.py: write_prices_by_ticker                                *)
(***************************************************************************)
\* Variant: the comprehension lacks its `if prices`.
serialisable_all(mapping) ==
    [i \in 1..Len(mapping) |->
        <<mapping[i][1], [j \in 1..Len(mapping[i][2]) |-> to_json_dict(mapping[i][2][j])]>>]

\* The dict comprehension: tickers with bars only, each bar as to_json_dict.
serialisable(mapping) ==
    LET kept == SelectSeq(mapping, LAMBDA item : item[2] # <<>>)
    IN [i \in 1..Len(kept) |->
          <<kept[i][1], [j \in 1..Len(kept[i][2]) |-> to_json_dict(kept[i][2][j])]>>]

\* Variant: the upload is not guarded by dry_run.
after_write_pc_always_upload == "upload"

\* Where sync goes once the export is written.
after_write_pc == IF dry_run THEN "next_batch" ELSE "upload"

\* The path is named after utcnow() to the second and opened for writing,
\* which creates or truncates the file.
WriteOpen ==
    /\ pc = "write_open"
    /\ \E elapsed \in (IF DOMAIN files = {} THEN {0} ELSE {0, 1}) :
        /\ clock' = clock + elapsed
        /\ json_path' = clock'
        /\ files' = (clock' :> [open |-> TRUE, content |-> <<>>]) @@ files
    /\ pc' = "write_dump"
    /\ UNCHANGED <<inputVars, caller, outcome, existing_file_id, run, dry_run, pos, groups, batch_no, ticker_batch,
                   prices_by_ticker, filtered, uploaded_files, bulkVars, filterVars,
                   createVars, notion_rows, drive, trace>>

\* json.dump and the close of the file; the path is returned to sync,
\* which in a dry run records it at once.
WriteDump ==
    /\ pc = "write_dump"
    /\ files' = (json_path :> [open |-> FALSE, content |-> serialisable(filtered)]) @@ files
    /\ trace' = IF dry_run THEN Bump(Bump(trace, "writes"), "recorded")
                ELSE Bump(trace, "writes")
    /\ uploaded_files' = IF dry_run THEN Append(uploaded_files, json_path) ELSE uploaded_files
    /\ pc' = after_write_pc
    /\ UNCHANGED <<inputVars, caller, outcome, existing_file_id, run, dry_run, pos, groups, batch_no, ticker_batch,
                   prices_by_ticker, filtered, json_path, bulkVars, filterVars, createVars,
                   notion_rows, clock, drive>>

(***************************************************************************)
(* clients/drive_client.py: GoogleDriveClient.upload_json                  *)
(***************************************************************************)
\* MediaFileUpload needs the local file to exist.
Uploadable(path) == path \in DOMAIN files

\* files().create(...).execute(): a new object named after the file, or
\* the request raises; sync records the path of an uploaded export.
Upload ==
    /\ pc = "upload"
    /\ LET sent == Bump(trace, "uploads")
       IN \E ok \in BOOLEAN :
            IF ok /\ Uploadable(json_path)
            THEN /\ drive' = Append(drive, [name |-> json_path, parent |-> drive_folder_id,
                                                content |-> files[json_path].content])
                 /\ uploaded_files' = Append(uploaded_files, json_path)
                 /\ trace' = Bump(sent, "recorded")
                 /\ pc' = "next_batch"
            ELSE /\ trace' = Raise(sent, "upload")
                 /\ pc' = "raised"
                 /\ UNCHANGED <<drive, uploaded_files>>
    /\ UNCHANGED <<inputVars, caller, outcome, existing_file_id, run, dry_run, pos, groups, batch_no, ticker_batch,
                   prices_by_ticker, filtered, json_path, bulkVars, filterVars, createVars,
                   notion_rows, files, clock>>

(***************************************************************************)
(* integrations/google_drive.py: upload_json, and GoogleDriveClient's      *)
(* upload_json called on its own                                           *)
(***************************************************************************)
\* integrations upload_json: `if not drive_folder_id: raise RuntimeError`,
\* `if not filepath.exists(): raise FileNotFoundError`.
helper_rejects(path) == drive_folder_id = "" \/ ~Uploadable(path)

\* _find_existing_file: the ids of the untrashed objects of that name in
\* the folder (files().list with pageSize=1 answers with one of them).
FindExisting(name) ==
    {id \in 1..Len(drive) : drive[id].name = name /\ drive[id].parent = drive_folder_id}

\* `if existing_file_id: files().update(...) else: files().create(...)`.
upload_request(found) == IF found # NoFile THEN "update" ELSE "create"

\* upload_json is called for a local path. The helper tests the folder
\* identifier and the file, loads its credentials (which may raise) and
\* builds the media body; the client only builds the media body, which
\* raises for a missing file.
UploadCalled(path) ==
    /\ pc \in {"upload_idle", "uploaded", "upload_raised"}
    /\ trace.upload_calls < MaxUploads
    /\ json_path' = path
    /\ existing_file_id' = NoFile
    /\ trace' = [trace EXCEPT !.upload_calls = @ + 1, !.drive_requests = 0,
                              !.drive_before = drive]
    /\ IF drive_impl = "helper"
       THEN IF helper_rejects(path)
            THEN pc' = "upload_raised"
            ELSE \E credentials \in BOOLEAN :
                    pc' = IF credentials THEN "drive_find" ELSE "upload_raised"
       ELSE pc' = IF Uploadable(path) THEN "drive_send" ELSE "upload_raised"
    /\ UNCHANGED <<inputVars, caller, outcome, run, dry_run, pos, groups, batch_no,
                   ticker_batch, prices_by_ticker, filtered, uploaded_files, bulkVars,
                   filterVars, createVars, worldVars>>

\* The helper's files().list(...).execute(): the request fails, or answers
\* with an object of that name in the folder, or with none.
DriveFind ==
    /\ pc = "drive_find"
    /\ trace' = [trace EXCEPT !.drive_requests = @ + 1]
    /\ \E ok \in BOOLEAN :
         IF ~ok
         THEN /\ pc' = "upload_raised"
              /\ UNCHANGED existing_file_id
         ELSE /\ pc' = "drive_send"
              /\ IF FindExisting(json_path) = {}
                 THEN existing_file_id' = NoFile
                 ELSE existing_file_id' \in FindExisting(json_path)
    /\ UNCHANGED <<inputVars, caller, outcome, syncVars, bulkVars, filterVars, createVars,
                   worldVars>>

\* request.execute(): the update of the object found, or the creation of
\* a new object named after the file in the folder; or the request fails.
DriveSend ==
    /\ pc = "drive_send"
    /\ trace' = [trace EXCEPT !.drive_requests = @ + 1]
    /\ \E ok \in BOOLEAN :
         IF ~ok
         THEN /\ pc' = "upload_raised"
              /\ UNCHANGED drive
         ELSE /\ pc' = "uploaded"
              /\ drive' = IF upload_request(existing_file_id) = "update"
                          THEN [drive EXCEPT ![existing_file_id].content =
                                                 files[json_path].content]
                          ELSE Append(drive, [name |-> json_path, parent |-> drive_folder_id,
                                              content |-> files[json_path].content])
    /\ UNCHANGED <<inputVars, caller, outcome, existing_file_id, syncVars, bulkVars, filterVars,
                   createVars, notion_rows, files, clock>>

(***************************************************************************)
(* utils/batching.py: chunked; pipeline.py: _chunked                       *)
(***************************************************************************)
\* Variant: the guard of chunked tests size < 0, a size of zero passes.
size_accepted_zero(size) == size >= 0

\* chunked: `if size < 1: raise ValueError`; _chunked: `if size <= 0`.
size_accepted(size) == ~(size < 1)

\* Variant: the input is read to its end (list(iterable)) before the first
\* group is cut from it.
chunked_resume_eager(items, size, at, batch) ==
    [consumed |-> Len(items), group |-> SubSeq(items, 1, Min(size, Len(items))),
     stop |-> items = <<>>]

\* Variant: the tail is yielded without the `if batch` test.
chunked_resume_empty_tail(items, size, at, batch) ==
    IF at = Len(items)
    THEN [consumed |-> at, group |-> <<>>, stop |-> FALSE]
    ELSE [consumed |-> Min(at + size, Len(items)),
          group |-> SubSeq(items, at + 1, Min(at + size, Len(items))), stop |-> FALSE]

\* Variant: the tail `if batch: yield tuple(batch)` is missing.
chunked_resume_no_tail(items, size, at, batch) ==
    IF at + size <= Len(items)
    THEN [consumed |-> at + size, group |-> SubSeq(items, at + 1, at + size), stop |-> FALSE]
    ELSE [consumed |-> Len(items), group |-> <<>>, stop |-> TRUE]

\* chunked resumed with `at` items of the input consumed and `batch`
\* buffered: the for loop appends item after item and yields the batch when
\* it holds `size` items; at the end of the input a non-empty batch is
\* yielded, otherwise the generator stops.
RECURSIVE chunked_resume(_, _, _, _)
chunked_resume(items, size, at, batch) ==
    IF at = Len(items)
    THEN [consumed |-> at, group |-> batch, stop |-> batch = <<>>]
    ELSE LET grown == Append(batch, items[at + 1])
         IN IF Len(grown) = size
            THEN [consumed |-> at + 1, group |-> grown, stop |-> FALSE]
            ELSE chunked_resume(items, size, at + 1, grown)

\* _chunked resumed at `index` of range(0, len(items), size): the slice
\* items[index : index + size], or the end of the range.
standalone_resume(items, size, index) ==
    IF index >= Len(items)
    THEN [consumed |-> index, group |-> <<>>, stop |-> TRUE]
    ELSE [consumed |-> index + size,
          group |-> SubSeq(items, index + 1, Min(index + size, Len(items))),
          stop |-> FALSE]

\* next() on the generator of the helper in use.
generator_next(items, size, at) ==
    IF chunk_impl = "chunked"
    THEN chunked_resume(items, size, at, <<>>)
    ELSE standalone_resume(items, size, at)

\* next() on a generator made by chunked(tickers, batch_size) or
\* _chunked(tickers, batch_size), driven by a caller of its own: the first
\* call runs the size test.
ChunkNext ==
    /\ pc \in {"chunk_new", "chunk_yielded"}
    /\ IF ~size_accepted(batch_size)
       THEN /\ pc' = "raised"
            /\ UNCHANGED <<pos, groups>>
       ELSE LET step == generator_next(tickers, batch_size, pos)
            IN /\ pos' = step.consumed
               /\ groups' = IF step.stop THEN groups ELSE Append(groups, step.group)
               /\ pc' = IF step.stop THEN "chunk_stopped" ELSE "chunk_yielded"
    /\ UNCHANGED <<inputVars, caller, outcome, existing_file_id, run, dry_run, batch_no, ticker_batch, prices_by_ticker,
                   filtered, uploaded_files, json_path, bulkVars, filterVars, createVars,
                   worldVars, trace>>

(***************************************************************************)
(* cli.py: run                                                             *)
(***************************************************************************)
\* Variant: only a key that is not set at all is refused.
require_env_unset_only(key) == env[key] # "unset"

\* _require_env: KeyError for a key that is not set, and `if not value`
\* for an empty one, both raised as RuntimeError.
require_env(key) == env[key] = "set"

\* run is called: parse_args and _load_tickers (the ticker file is a JSON
\* array, or ValueError), then the first _require_env.
RunCalled ==
    /\ pc = "run_idle"
    /\ \E is_array \in BOOLEAN :
         /\ pc' = IF is_array THEN RequiredEnv[1] ELSE "run_raised"
         /\ trace' = IF is_array THEN trace ELSE [trace EXCEPT !.raised_at = "load_tickers"]
    /\ UNCHANGED <<inputVars, caller, outcome, existing_file_id, syncVars, bulkVars, filterVars,
                   createVars, worldVars>>

\* One _require_env call, for the i-th required key: RuntimeError, or on
\* to the next key and, after the last, to the construction of the clients.
RequireEnv(i) ==
    /\ pc = RequiredEnv[i]
    /\ pc' = IF ~require_env(RequiredEnv[i]) THEN "run_raised"
             ELSE IF i < Len(RequiredEnv) THEN RequiredEnv[i + 1]
             ELSE "run_build"
    /\ trace' = IF require_env(RequiredEnv[i]) THEN trace
                ELSE [trace EXCEPT !.raised_at = "require_env"]
    /\ UNCHANGED <<inputVars, caller, outcome, existing_file_id, syncVars, bulkVars, filterVars,
                   createVars, worldVars>>

\* TiingoClient, NotionClient, GoogleDriveClient and the pipeline are
\* constructed; GoogleDriveClient reads the service account file and
\* builds the Drive service, which may raise.
RunBuild ==
    /\ pc = "run_build"
    /\ \E credentials \in BOOLEAN :
         /\ pc' = IF credentials THEN "run_execute" ELSE "run_raised"
         /\ trace' = IF credentials THEN trace ELSE [trace EXCEPT !.raised_at = "build"]
    /\ UNCHANGED <<inputVars, caller, outcome, existing_file_id, syncVars, bulkVars, filterVars,
                   createVars, worldVars>>

\* The end of run. With --dry-run, _dry_run walks the batches and calls
\* fetch_price_history_bulk for each (the coroutine _filter_new_prices
\* makes is not awaited); a bad batch size or a failed fetch raises.
\* Without it, pipeline.sync(...) makes a coroutine that run never awaits.
RunExecute ==
    /\ pc = "run_execute"
    /\ IF ~dry_run
       THEN /\ pc' = "run_done"
            /\ UNCHANGED trace
       ELSE IF ~size_accepted(batch_size)
       THEN /\ pc' = "run_raised"
            /\ trace' = [trace EXCEPT !.raised_at = "chunked"]
       ELSE IF tickers = <<>>
       THEN /\ pc' = "run_done"
            /\ UNCHANGED trace
       ELSE \E fetched \in 1..Len(tickers), ok \in BOOLEAN :
              /\ ok => fetched = Len(tickers)
              /\ trace' = [trace EXCEPT !.run_effects.price = fetched,
                                        !.raised_at = IF ok THEN @ ELSE "fetch"]
              /\ pc' = IF ok THEN "run_done" ELSE "run_raised"
    /\ UNCHANGED <<inputVars, caller, outcome, existing_file_id, syncVars, bulkVars, filterVars,
                   createVars, worldVars>>

(***************************************************************************)
(* integrations/notion_client.py: load_notion_config                       *)
(***************************************************************************)
\* What a config file may hold under a key: nothing, "", or a string.
FileValues == {"omitted", "empty", "value"}

\* The dict read from the config file; {} when no config_path is given.
file_data == IF given.config_path THEN given.file
             ELSE [api_key |-> "omitted", database_id |-> "omitted"]

\* _read_config_value: the environment's value if it is set and not empty,
\* otherwise the file's if it is a non-empty string, otherwise None. The
\* result names where the value comes from.
read_config_value(key, env_key) ==
    IF env[env_key] = "set" THEN "env"
    ELSE IF file_data[key] = "value" THEN "file"
    ELSE "none"

\* load_notion_config(config_path=..., env=...): the file is read when a
\* path is given (RuntimeError if it is missing, ValueError if it is not
\* JSON), both values are looked up, and a value that cannot be found
\* raises RuntimeError.
LoadNotionConfig ==
    /\ pc = "load_config"
    /\ LET api_key == read_config_value("api_key", "NOTION_API_KEY")
           database_id == read_config_value("database_id", "NOTION_DATABASE_ID")
       IN outcome' =
            IF given.config_path /\ ~given.file_exists THEN [kind |-> "RuntimeError"]
            ELSE IF given.config_path /\ ~given.valid_json THEN [kind |-> "ValueError"]
            ELSE IF api_key = "none" \/ database_id = "none" THEN [kind |-> "RuntimeError"]
            ELSE [kind |-> "config", api_key |-> api_key, database_id |-> database_id]
    /\ pc' = "loaded"
    /\ UNCHANGED <<inputVars, caller, existing_file_id, syncVars, bulkVars, filterVars,
                   createVars, worldVars, trace>>

(***************************************************************************)
(* tiingo_client.py: the standalone fetch_prices                           *)
(***************************************************************************)
\* The replies a request may get: an HTTP status and the kind of body ("text"
\* is a body that is not JSON).
Statuses == {200, 401, 404, 500}
Bodies == {"list", "object", "text"}

\* `token = api_key or os.getenv("TIINGO_API_KEY")`; `if not token`.
HasToken == given.api_key = "key" \/ env["TIINGO_API_KEY"] = "set"

\* Variant: the status of the response is not looked at.
response_ok_always(status) == TRUE

\* requests.Response.ok: no 4xx or 5xx status.
response_ok(status) == status < 400

\* fetch_prices is called: RuntimeError without a token, otherwise the
\* request is built and sent.
FetchPricesCalled ==
    /\ pc = "prices_idle"
    /\ outcome' = IF HasToken THEN [kind |-> "pending", requests |-> 1]
                  ELSE [kind |-> "RuntimeError", requests |-> 0]
    /\ pc' = IF HasToken THEN "http_get" ELSE "prices_done"
    /\ UNCHANGED <<inputVars, caller, existing_file_id, syncVars, bulkVars, filterVars,
                   createVars, worldVars, trace>>

\* http.get returns or raises: a transport error propagates; a status that
\* is not ok and a JSON body that is not a list raise TiingoApiError; a body
\* that is not JSON makes response.json() raise; a list is returned.
FetchPricesAnswered ==
    /\ pc = "http_get"
    /\ \/ outcome' = [kind |-> "transport", requests |-> outcome.requests]
       \/ \E status \in Statuses, body \in Bodies :
            outcome' = [kind |-> IF ~response_ok(status) THEN "TiingoApiError"
                                 ELSE IF body = "text" THEN "ValueError"
                                 ELSE IF body # "list" THEN "TiingoApiError"
                                 ELSE "returned",
                        requests |-> outcome.requests, status |-> status, body |-> body]
    /\ pc' = "prices_done"
    /\ UNCHANGED <<inputVars, caller, existing_file_id, syncVars, bulkVars, filterVars,
                   createVars, worldVars, trace>>

(***************************************************************************)
(* pipeline.py: the standalone BatchPipeline                               *)
(***************************************************************************)
\* BatchPipeline.run is called: _load_tickers rejects an empty ticker
\* list, otherwise batch_files = [] and the loop over _chunked starts.
StandaloneRun ==
    /\ pc = "standalone_idle"
    /\ pc' = IF tickers = <<>> THEN "raised" ELSE "standalone_next"
    /\ trace' = IF tickers = <<>> THEN [trace EXCEPT !.raised_at = "load_tickers"] ELSE trace
    /\ UNCHANGED <<inputVars, caller, outcome, existing_file_id, syncVars, bulkVars, filterVars, createVars, worldVars>>

\* The for loop asks _chunked for the next batch: ValueError for a size
\* of zero or less, the return of batch_files at the end, otherwise
\* _fetch_batch starts on the batch with an empty prices dict.
StandaloneNext ==
    /\ pc = "standalone_next"
    /\ LET step == standalone_resume(tickers, batch_size, pos)
       IN IF ~size_accepted(batch_size)
          THEN /\ pc' = "raised"
               /\ trace' = [trace EXCEPT !.raised_at = "chunked"]
               /\ UNCHANGED <<pos, groups, batch_no, ticker_batch, prices_by_ticker>>
          ELSE IF step.stop
          THEN /\ pc' = "done"
               /\ UNCHANGED <<pos, groups, batch_no, ticker_batch, prices_by_ticker, trace>>
          ELSE /\ pos' = step.consumed
               /\ groups' = Append(groups, step.group)
               /\ batch_no' = batch_no + 1
               /\ ticker_batch' = step.group
               /\ prices_by_ticker' = <<>>
               /\ pc' = "standalone_fetch"
               /\ trace' = trace
    /\ UNCHANGED <<inputVars, caller, outcome, existing_file_id, run, dry_run, filtered, uploaded_files, json_path,
                   bulkVars, filterVars, createVars, worldVars>>

\* The calls of the fetcher made for the batch in hand.
BatchCalls == SelectSeq(trace.calls, LAMBDA c : c.batch = batch_no)

\* _fetch_batch: the position in the batch of the ticker in hand, one past
\* the tickers whose fetch has returned.
TickerInHand == Len(SelectSeq(BatchCalls, LAMBDA c : c.ok)) + 1

\* _fetch_with_retry: the attempts that have failed for the ticker in hand.
FailedAttempts == Len(SelectSeq(BatchCalls, LAMBDA c : ~c.ok /\ c.at = TickerInHand))

\* Variant: the loop over the attempts always has a first turn.
range_empty_never == FALSE

\* `for attempt in range(1, self._config.max_retries + 1)` has no turn.
range_empty == max_retries < 1

\* Variant: the test of the last attempt is off by one.
last_attempt_pc_one_more(failed) ==
    IF failed = max_retries + 1 THEN "raised" ELSE "standalone_fetch"

\* The sleep after a failed attempt, in units of backoff_seconds, 0 for no
\* sleep: `sleep_for = backoff_seconds * (2 ** (attempt - 1))`, not reached
\* on the last attempt.
sleep_for(attempt) == IF attempt = max_retries THEN 0 ELSE 2 ^ (attempt - 1)

\* `if attempt == self._config.max_retries: raise`, otherwise the backoff
\* sleep and the next attempt.
last_attempt_pc(failed) == IF failed = max_retries THEN "raised" ELSE "standalone_fetch"

\* _fetch_with_retry for the ticker in hand: with no attempt allowed the
\* loop body never runs and RuntimeError is raised; otherwise one call of
\* the fetcher, whose result is stored under the ticker, or whose failure
\* is raised on the last attempt and retried before it.
StandaloneFetch ==
    /\ pc = "standalone_fetch"
    /\ IF range_empty
       THEN /\ pc' = "raised"
            /\ trace' = [trace EXCEPT !.raised_at = "unreachable"]
            /\ UNCHANGED prices_by_ticker
       ELSE \E ok \in BOOLEAN :
              LET ticker == ticker_batch[TickerInHand]
                  result == last_attempt_pc(FailedAttempts + 1)
              IN /\ trace' = [trace EXCEPT !.raised_at =
                                IF ~ok /\ result = "raised" THEN "fetcher" ELSE @,
                                            !.calls =
                                Append(@, [ticker |-> ticker, ok |-> ok, batch |-> batch_no,
                                           at |-> TickerInHand,
                                           slept |-> IF ok THEN 0
                                                     ELSE sleep_for(FailedAttempts + 1)])]
                 /\ IF ok
                    THEN /\ prices_by_ticker' = DictSet(prices_by_ticker, ticker, source[ticker])
                         /\ pc' = IF TickerInHand = Len(ticker_batch)
                                  THEN "standalone_write" ELSE "standalone_fetch"
                    ELSE /\ prices_by_ticker' = prices_by_ticker
                         /\ pc' = result
    /\ UNCHANGED <<inputVars, caller, outcome, existing_file_id, run, dry_run, pos, groups, batch_no, ticker_batch,
                   filtered, uploaded_files, json_path, bulkVars, filterVars, createVars,
                   worldVars>>

\* _write_batch: prices_batch_{batch_number:03d}.json receives the batch's
\* payload, every ticker of the batch included; the path joins batch_files.
StandaloneWrite ==
    /\ pc = "standalone_write"
    /\ files' = (batch_no :> [open |-> FALSE, content |-> prices_by_ticker]) @@ files
    /\ json_path' = batch_no
    /\ uploaded_files' = Append(uploaded_files, batch_no)
    /\ pc' = "standalone_next"
    /\ UNCHANGED <<inputVars, caller, outcome, existing_file_id, run, dry_run, pos, groups, batch_no, ticker_batch,
                   prices_by_ticker, filtered, bulkVars, filterVars, createVars,
                   notion_rows, clock, drive, trace>>

(***************************************************************************)
(* services/pipeline.py: TiingoToNotionPipeline.sync                       *)
(***************************************************************************)
\* sync is called: uploaded_files = [] and the chunked generator is made;
\* nothing of an earlier call's frame is left.
SyncCalled ==
    /\ run' = run + 1
    /\ dry_run' \in BOOLEAN
    /\ pos' = 0
    /\ batch_no' = 0
    /\ groups' = <<>>
    /\ uploaded_files' = <<>>
    /\ trace' = [trace EXCEPT !.batch = NoOps, !.in_run = NoOps, !.row_failures = 0,
                              !.bulk_outcome = "none", !.left_behind = {},
                              !.raised_at = "none",
                              !.returned = FALSE, !.create_raised = FALSE,
                              !.interrupted = FALSE, !.submitted = <<>>,
                              !.requests = 0, !.query_failed = FALSE, !.handed = {}]
    /\ pc' = "next_batch"
    /\ ticker_batch' = <<>>
    /\ prices_by_ticker' = <<>>
    /\ filtered' = <<>>
    /\ json_path' = 0
    /\ BulkStarts(<<>>)
    /\ filter_pos' = 1
    /\ seen_dates' = {}
    /\ start_cursor' = 0
    /\ pages_fetched' = 0
    /\ persist_pos' = 1
    /\ CreateStarts(<<>>)
    /\ UNCHANGED <<inputVars, caller, outcome, existing_file_id, worldVars>>

\* The first invocation of sync.
StartSync ==
    /\ pc = "idle"
    /\ caller = "sync"
    /\ run = 0
    /\ SyncCalled

\* sync is invoked again, with the same arguments, after a run has ended.
Resync ==
    /\ pc \in {"done", "raised"}
    /\ caller = "sync"
    /\ run \in 1..(MaxRuns - 1)
    /\ SyncCalled

\* The for loop asks chunked for its next batch: ValueError for a size
\* below one, the end of the run when the tickers are used up, otherwise
\* the batch, whose bulk fetch starts.
NextBatch ==
    /\ pc = "next_batch"
    /\ LET step == generator_next(tickers, batch_size, pos)
       IN IF ~size_accepted(batch_size)
          THEN /\ pc' = "raised"
               /\ trace' = Raise(trace, "chunked")
               /\ UNCHANGED <<pos, groups, batch_no, ticker_batch, bulkVars>>
          ELSE IF step.stop
          THEN /\ pc' = "done"
               /\ pos' = step.consumed
               /\ trace' = [trace EXCEPT !.returned = TRUE,
                              !.log = Append(@, RunSummary(trace, "done", dry_run))]
               /\ UNCHANGED <<groups, batch_no, ticker_batch, bulkVars>>
          ELSE /\ ticker_batch' = step.group
               /\ pos' = step.consumed
               /\ groups' = Append(groups, step.group)
               /\ batch_no' = batch_no + 1
               /\ trace' = [trace EXCEPT !.batch = NoOps, !.bulk_outcome = "none",
                                             !.left_behind = {}]
               /\ BulkStarts(step.group)
               /\ pc' = "bulk_submit"
    /\ UNCHANGED <<inputVars, caller, outcome, existing_file_id, run, dry_run, prices_by_ticker, filtered, uploaded_files,
                   json_path, filterVars, createVars, worldVars>>

(***************************************************************************)
(* Specifications.                                                         *)
(***************************************************************************)
Payloads(hours) == SeqsUpTo(RawItems(hours), MaxBars)

NoSessions == <<>>
TemplateOnly == <<[kind |-> "template", adapters |-> 1, users |-> {}]>>

\* Everything but the inputs, before any call.
Quiet ==
    /\ run = 0
    /\ dry_run = FALSE
    /\ pos = 0
    /\ batch_no = 0
    /\ groups = <<>>
    /\ ticker_batch = <<>>
    /\ prices_by_ticker = <<>>
    /\ filtered = <<>>
    /\ uploaded_files = <<>>
    /\ json_path = 0
    /\ tickers_list = <<>>
    /\ futures = <<>>
    /\ threads = <<>>
    /\ idle_sem = 0
    /\ results = <<>>
    /\ yielded = {}
    /\ bulk_exc = FALSE
    /\ filter_pos = 1
    /\ seen_dates = {}
    /\ start_cursor = 0
    /\ pages_fetched = 0
    /\ persist_pos = 1
    /\ prices = <<>>
    /\ chunk_start = 1
    /\ gather = <<>>
    /\ created_ids = <<>>
    /\ files = <<>>
    /\ clock = 0
    /\ drive = <<>>
    /\ trace = Trace0

\* The pipeline with its clients built by their defaults, called on some
\* tickers and provider data, from an empty destination.
Init ==
    /\ tickers \in SeqsUpTo(Tickers, MaxTickers)
    /\ batch_size \in 0..MaxBatchSize
    /\ source \in [Tickers -> Payloads({0})]
    /\ \A t \in Tickers \ Range(tickers) : source[t] = <<>>
    /\ start_date = {}
    /\ end_date = {}
    /\ session_template = NoSession
    /\ session_factory = FALSE
    /\ max_workers = DefaultMaxWorkers
    /\ notion_batch_size = DefaultNotionBatchSize
    /\ page_size = DefaultPageSize
    /\ max_pages = DefaultMaxPages
    /\ runaway = FALSE
    /\ chunk_impl = "chunked"
    /\ max_retries = DefaultMaxRetries
    /\ drive_folder_id = DefaultFolder
    /\ drive_impl = "client"
    /\ env = FullEnv
    /\ given = NoArgs
    /\ outcome = NoOutcome
    /\ existing_file_id = NoFile
    /\ sessions = NoSessions
    /\ notion_rows = <<>>
    /\ pc = "idle"
    /\ caller = "sync"
    /\ Quiet

Next ==
    \/ StartSync
    \/ NextBatch
    \/ Submit
    \/ \E k \in 1..Len(threads) : WorkerTake(k)
    \/ \E k \in 1..Len(threads) : WorkerFinish(k)
    \/ Collect
    \/ BulkExit
    \/ QueryPage
    \/ PersistNext
    \/ \E i \in 1..Len(gather) : RowCreate(i)
    \/ GatherDone
    \/ GatherRaise
    \/ WriteOpen
    \/ WriteDump
    \/ Upload

Spec == Init /\ [][Next]_vars

\* The same, with sync invoked up to MaxRuns times on the same arguments.
NextRerun == Next \/ Resync

SpecRerun == Init /\ [][NextRerun]_vars

(***************************************************************************)
(* fetch_price_history_bulk called on its own, on a client built in each   *)
(* of the ways TiingoClient.__init__ allows.                               *)
(***************************************************************************)
InitBulk ==
    /\ tickers = <<>>
    /\ batch_size = 1
    /\ tickers_list \in SeqsUpTo(Tickers, MaxTickers)
    /\ source \in [Tickers -> Payloads({0})]
    /\ \A t \in Tickers \ Range(tickers_list) : source[t] = <<>>
    /\ start_date = {}
    /\ end_date = {}
    /\ session_template \in {NoSession, 1}
    /\ session_factory \in BOOLEAN
    /\ sessions = IF session_template = NoSession THEN NoSessions ELSE TemplateOnly
    /\ max_workers \in 1..MaxPoolWorkers
    /\ notion_batch_size = DefaultNotionBatchSize
    /\ page_size = DefaultPageSize
    /\ max_pages = DefaultMaxPages
    /\ runaway = FALSE
    /\ chunk_impl = "chunked"
    /\ max_retries = DefaultMaxRetries
    /\ drive_folder_id = DefaultFolder
    /\ drive_impl = "client"
    /\ env = FullEnv
    /\ given = NoArgs
    /\ outcome = NoOutcome
    /\ existing_file_id = NoFile
    /\ notion_rows = <<>>
    /\ pc = IF tickers_list = <<>> THEN "bulk_exit" ELSE "bulk_submit"
    /\ caller = "direct"
    /\ run = 0
    /\ dry_run = FALSE
    /\ pos = 0
    /\ batch_no = 0
    /\ groups = <<>>
    /\ ticker_batch = <<>>
    /\ prices_by_ticker = <<>>
    /\ filtered = <<>>
    /\ uploaded_files = <<>>
    /\ json_path = 0
    /\ futures = <<>>
    /\ threads = <<>>
    /\ idle_sem = 0
    /\ results = <<>>
    /\ yielded = {}
    /\ bulk_exc = FALSE
    /\ filter_pos = 1
    /\ seen_dates = {}
    /\ start_cursor = 0
    /\ pages_fetched = 0
    /\ persist_pos = 1
    /\ prices = <<>>
    /\ chunk_start = 1
    /\ gather = <<>>
    /\ created_ids = <<>>
    /\ files = <<>>
    /\ clock = 0
    /\ drive = <<>>
    /\ trace = Trace0

NextBulk ==
    \/ Submit
    \/ \E k \in 1..Len(threads) : WorkerTake(k)
    \/ \E k \in 1..Len(threads) : WorkerFinish(k)
    \/ Collect
    \/ BulkExit

SpecBulk == InitBulk /\ [][NextBulk]_vars

(***************************************************************************)
(* _filter_new_prices called on its own, on a fetched mapping and a        *)
(* destination that already holds rows.                                    *)
(***************************************************************************)
StoredRows == [ticker : Tickers, date : StoredStrings \cup {""}]

\* The rows of a destination, numbered in creation order.
Numbered(rows) == [i \in 1..Len(rows) |-> [id |-> i, ticker |-> rows[i].ticker, date |-> rows[i].date]]

\* The mappings a bulk fetch can return: distinct tickers in completion
\* order, each with the bars its fetch returns.
FetchedMappings(keys) == [i \in 1..Len(keys) |-> <<keys[i], fetch_price_history(keys[i])>>]

InitFilter ==
    /\ tickers = <<>>
    /\ batch_size = 1
    /\ tickers_list \in {t \in SeqsUpTo(Tickers, MaxTickers) : Cardinality(Range(t)) = Len(t)}
    /\ source \in [Tickers -> Payloads({0})]
    /\ \A t \in Tickers \ Range(tickers_list) : source[t] = <<>>
    /\ start_date \in Optional(Dates)
    /\ end_date \in Optional(Dates)
    /\ session_template = NoSession
    /\ session_factory = FALSE
    /\ sessions = NoSessions
    /\ max_workers = DefaultMaxWorkers
    /\ notion_batch_size = DefaultNotionBatchSize
    /\ page_size \in {0, MaxPageSize}
    /\ max_pages = DefaultMaxPages
    /\ runaway = FALSE
    /\ chunk_impl = "chunked"
    /\ max_retries = DefaultMaxRetries
    /\ drive_folder_id = DefaultFolder
    /\ drive_impl = "client"
    /\ env = FullEnv
    /\ given = NoArgs
    /\ outcome = NoOutcome
    /\ existing_file_id = NoFile
    /\ \E rows \in SeqsUpTo(StoredRows, MaxStored) : notion_rows = Numbered(rows)
    /\ prices_by_ticker = FetchedMappings(tickers_list)
    /\ pc = IF prices_by_ticker = <<>> THEN "returned" ELSE "query"
    /\ caller = "direct"
    /\ run = 0
    /\ dry_run = FALSE
    /\ pos = 0
    /\ batch_no = 0
    /\ groups = <<>>
    /\ ticker_batch = <<>>
    /\ filtered = <<>>
    /\ uploaded_files = <<>>
    /\ json_path = 0
    /\ futures = <<>>
    /\ threads = <<>>
    /\ idle_sem = 0
    /\ results = <<>>
    /\ yielded = {}
    /\ bulk_exc = FALSE
    /\ filter_pos = 1
    /\ seen_dates = {}
    /\ start_cursor = 0
    /\ pages_fetched = 0
    /\ persist_pos = 1
    /\ prices = <<>>
    /\ chunk_start = 1
    /\ gather = <<>>
    /\ created_ids = <<>>
    /\ files = <<>>
    /\ clock = 0
    /\ drive = <<>>
    /\ trace = Trace0

NextFilter == QueryPage

SpecFilter == InitFilter /\ [][NextFilter]_vars

(***************************************************************************)
(* create_price_rows called on its own, on any sequence of bars.           *)
(***************************************************************************)
Bars == [ticker : {"AAPL"}, date : Dates, close : {1}]

InitCreate ==
    /\ tickers = <<>>
    /\ batch_size = 1
    /\ tickers_list = <<>>
    /\ source = [t \in Tickers |-> <<>>]
    /\ start_date = {}
    /\ end_date = {}
    /\ session_template = NoSession
    /\ session_factory = FALSE
    /\ sessions = NoSessions
    /\ max_workers = DefaultMaxWorkers
    /\ notion_batch_size \in 0..MaxNotionBatch
    /\ page_size = DefaultPageSize
    /\ max_pages = DefaultMaxPages
    /\ runaway = FALSE
    /\ chunk_impl = "chunked"
    /\ max_retries = DefaultMaxRetries
    /\ drive_folder_id = DefaultFolder
    /\ drive_impl = "client"
    /\ env = FullEnv
    /\ given = NoArgs
    /\ outcome = NoOutcome
    /\ existing_file_id = NoFile
    /\ notion_rows = <<>>
    /\ prices \in SeqsUpTo(Bars, MaxRows)
    /\ pc = IF prices = <<>> THEN "returned" ELSE "gather"
    /\ gather = [i \in 1..Min(effective_batch_size, Len(prices)) |-> [st |-> "pending", id |-> 0]]
    /\ chunk_start = 1
    /\ created_ids = <<>>
    /\ persist_pos = 1
    /\ caller = "direct"
    /\ run = 0
    /\ dry_run = FALSE
    /\ pos = 0
    /\ batch_no = 0
    /\ groups = <<>>
    /\ ticker_batch = <<>>
    /\ prices_by_ticker = <<>>
    /\ filtered = <<>>
    /\ uploaded_files = <<>>
    /\ json_path = 0
    /\ futures = <<>>
    /\ threads = <<>>
    /\ idle_sem = 0
    /\ results = <<>>
    /\ yielded = {}
    /\ bulk_exc = FALSE
    /\ filter_pos = 1
    /\ seen_dates = {}
    /\ start_cursor = 0
    /\ pages_fetched = 0
    /\ files = <<>>
    /\ clock = 0
    /\ drive = <<>>
    /\ trace = Trace0

NextCreate ==
    \/ \E i \in 1..Len(gather) : RowCreate(i)
    \/ GatherDone
    \/ GatherRaise

SpecCreate == InitCreate /\ [][NextCreate]_vars

(***************************************************************************)
(* _filter_new_prices called twice on the same fetched mapping.            *)
(***************************************************************************)
\* The first call has returned; the caller keeps its result and calls the
\* filter again with the same arguments.
FilterAgain ==
    /\ pc = "returned"
    /\ caller = "direct"
    /\ trace.first_pass = {}
    /\ prices_by_ticker # <<>>
    /\ trace' = [trace EXCEPT !.first_pass = {filtered}]
    /\ filtered' = <<>>
    /\ filter_pos' = 1
    /\ pc' = "query"
    /\ UNCHANGED <<inputVars, caller, outcome, existing_file_id, run, dry_run, pos, groups, batch_no, ticker_batch,
                   prices_by_ticker, uploaded_files, json_path, bulkVars, seen_dates,
                   start_cursor, pages_fetched, createVars, worldVars>>

InitRefilter ==
    /\ InitFilter
    /\ start_date = {}
    /\ end_date = {}

NextRefilter ==
    \/ QueryPage
    \/ FilterAgain

SpecRefilter == InitRefilter /\ [][NextRefilter]_vars

(***************************************************************************)
(* An existing-dates query called on its own for one ticker, through       *)
(* either client, on a destination that may report has_more for ever.      *)
(***************************************************************************)
InitPaging ==
    /\ tickers = <<>>
    /\ batch_size = 1
    /\ tickers_list = <<"AAPL">>
    /\ source \in [Tickers -> Payloads({0})]
    /\ source["MSFT"] = <<>>
    /\ start_date = {}
    /\ end_date = {}
    /\ session_template = NoSession
    /\ session_factory = FALSE
    /\ sessions = NoSessions
    /\ max_workers = DefaultMaxWorkers
    /\ notion_batch_size = DefaultNotionBatchSize
    /\ page_size \in {1, MaxPageSize}
    /\ max_pages \in 1..MaxPagesTried
    /\ runaway \in BOOLEAN
    /\ chunk_impl = "chunked"
    /\ max_retries = DefaultMaxRetries
    /\ drive_folder_id = DefaultFolder
    /\ drive_impl = "client"
    /\ env = FullEnv
    /\ given = NoArgs
    /\ outcome = NoOutcome
    /\ existing_file_id = NoFile
    /\ \E rows \in SeqsUpTo(StoredRows, MaxStored) : notion_rows = Numbered(rows)
    /\ prices_by_ticker = FetchedMappings(tickers_list)
    /\ pc \in {"query", "fetch_existing"}
    /\ caller = "direct"
    /\ run = 0
    /\ dry_run = FALSE
    /\ pos = 0
    /\ batch_no = 0
    /\ groups = <<>>
    /\ ticker_batch = <<>>
    /\ filtered = <<>>
    /\ uploaded_files = <<>>
    /\ json_path = 0
    /\ futures = <<>>
    /\ threads = <<>>
    /\ idle_sem = 0
    /\ results = <<>>
    /\ yielded = {}
    /\ bulk_exc = FALSE
    /\ filter_pos = 1
    /\ seen_dates = {}
    /\ start_cursor = 0
    /\ pages_fetched = 0
    /\ persist_pos = 1
    /\ prices = <<>>
    /\ chunk_start = 1
    /\ gather = <<>>
    /\ created_ids = <<>>
    /\ files = <<>>
    /\ clock = 0
    /\ drive = <<>>
    /\ trace = Trace0

NextPaging ==
    \/ QueryPage
    \/ FetchExistingPage

SpecPaging == InitPaging /\ [][NextPaging]_vars

(***************************************************************************)
(* A batching helper driven on its own over any input and size.            *)
(***************************************************************************)
InitChunk ==
    /\ tickers \in SeqsUpTo(Tickers, MaxItems)
    /\ batch_size \in -1..MaxChunkSize
    /\ chunk_impl \in {"chunked", "_chunked"}
    /\ max_retries = DefaultMaxRetries
    /\ drive_folder_id = DefaultFolder
    /\ drive_impl = "client"
    /\ env = FullEnv
    /\ given = NoArgs
    /\ outcome = NoOutcome
    /\ existing_file_id = NoFile
    /\ source = [t \in Tickers |-> <<>>]
    /\ start_date = {}
    /\ end_date = {}
    /\ session_template = NoSession
    /\ session_factory = FALSE
    /\ max_workers = DefaultMaxWorkers
    /\ notion_batch_size = DefaultNotionBatchSize
    /\ page_size = DefaultPageSize
    /\ max_pages = DefaultMaxPages
    /\ runaway = FALSE
    /\ sessions = NoSessions
    /\ notion_rows = <<>>
    /\ pc = "chunk_new"
    /\ caller = "direct"
    /\ Quiet

NextChunk == ChunkNext

SpecChunk == InitChunk /\ [][NextChunk]_vars

(***************************************************************************)
(* The standalone pipeline run over a ticker file, with a fetcher that     *)
(* may fail.                                                               *)
(***************************************************************************)
InitStandalone ==
    /\ tickers \in SeqsUpTo(Tickers, MaxTickers)
    /\ batch_size \in 0..MaxBatchSize
    /\ chunk_impl = "_chunked"
    /\ max_retries \in -1..MaxRetries
    /\ drive_folder_id = DefaultFolder
    /\ drive_impl = "client"
    /\ env = FullEnv
    /\ given = NoArgs
    /\ outcome = NoOutcome
    /\ existing_file_id = NoFile
    /\ source \in [Tickers -> Payloads({0})]
    /\ \A t \in Tickers \ Range(tickers) : source[t] = <<>>
    /\ start_date = {}
    /\ end_date = {}
    /\ session_template = NoSession
    /\ session_factory = FALSE
    /\ max_workers = DefaultMaxWorkers
    /\ notion_batch_size = DefaultNotionBatchSize
    /\ page_size = DefaultPageSize
    /\ max_pages = DefaultMaxPages
    /\ runaway = FALSE
    /\ sessions = NoSessions
    /\ notion_rows = <<>>
    /\ pc = "standalone_idle"
    /\ caller = "direct"
    /\ Quiet

NextStandalone ==
    \/ StandaloneRun
    \/ StandaloneNext
    \/ StandaloneFetch
    \/ StandaloneWrite

SpecStandalone == InitStandalone /\ [][NextStandalone]_vars

(***************************************************************************)
(* The fetch of one ticker, over every response of up to MaxPayload items  *)
(* (several on one day included), every order of them and every date range.*)
(***************************************************************************)
InitFetch ==
    /\ tickers = <<>>
    /\ batch_size = 1
    /\ tickers_list = <<"AAPL">>
    /\ source \in [Tickers -> SeqsUpTo(RawItems({0, 1}), MaxPayload)]
    /\ source["MSFT"] = <<>>
    /\ start_date \in Optional(Dates)
    /\ end_date \in Optional(Dates)
    /\ session_template = NoSession
    /\ session_factory = FALSE
    /\ sessions = NoSessions
    /\ max_workers = 1
    /\ notion_batch_size = DefaultNotionBatchSize
    /\ page_size = DefaultPageSize
    /\ max_pages = DefaultMaxPages
    /\ runaway = FALSE
    /\ chunk_impl = "chunked"
    /\ max_retries = DefaultMaxRetries
    /\ drive_folder_id = DefaultFolder
    /\ drive_impl = "client"
    /\ env = FullEnv
    /\ given = NoArgs
    /\ outcome = NoOutcome
    /\ existing_file_id = NoFile
    /\ notion_rows = <<>>
    /\ pc = "bulk_submit"
    /\ caller = "direct"
    /\ run = 0
    /\ dry_run = FALSE
    /\ pos = 0
    /\ batch_no = 0
    /\ groups = <<>>
    /\ ticker_batch = <<>>
    /\ prices_by_ticker = <<>>
    /\ filtered = <<>>
    /\ uploaded_files = <<>>
    /\ json_path = 0
    /\ futures = <<>>
    /\ threads = <<>>
    /\ idle_sem = 0
    /\ results = <<>>
    /\ yielded = {}
    /\ bulk_exc = FALSE
    /\ filter_pos = 1
    /\ seen_dates = {}
    /\ start_cursor = 0
    /\ pages_fetched = 0
    /\ persist_pos = 1
    /\ prices = <<>>
    /\ chunk_start = 1
    /\ gather = <<>>
    /\ created_ids = <<>>
    /\ files = <<>>
    /\ clock = 0
    /\ drive = <<>>
    /\ trace = Trace0

NextFetch == NextBulk

SpecFetch == InitFetch /\ [][NextFetch]_vars

(***************************************************************************)
(* upload_json called on its own, repeatedly, for a file that exists and   *)
(* for one that does not, with and without a folder identifier, through    *)
(* the helper and through GoogleDriveClient.                               *)
(***************************************************************************)
ExportOnDisk == (1 :> [open |-> FALSE, content |-> <<>>])

InitUpload ==
    /\ tickers = <<>>
    /\ batch_size = 1
    /\ source = [t \in Tickers |-> <<>>]
    /\ start_date = {}
    /\ end_date = {}
    /\ session_template = NoSession
    /\ session_factory = FALSE
    /\ max_workers = DefaultMaxWorkers
    /\ notion_batch_size = DefaultNotionBatchSize
    /\ page_size = DefaultPageSize
    /\ max_pages = DefaultMaxPages
    /\ runaway = FALSE
    /\ chunk_impl = "chunked"
    /\ max_retries = DefaultMaxRetries
    /\ drive_folder_id \in {"", DefaultFolder}
    /\ drive_impl \in {"client", "helper"}
    /\ env = FullEnv
    /\ given = NoArgs
    /\ outcome = NoOutcome
    /\ existing_file_id = NoFile
    /\ sessions = NoSessions
    /\ notion_rows = <<>>
    /\ pc = "upload_idle"
    /\ caller = "direct"
    /\ run = 0
    /\ dry_run = FALSE
    /\ pos = 0
    /\ batch_no = 0
    /\ groups = <<>>
    /\ ticker_batch = <<>>
    /\ prices_by_ticker = <<>>
    /\ filtered = <<>>
    /\ uploaded_files = <<>>
    /\ json_path = 0
    /\ tickers_list = <<>>
    /\ futures = <<>>
    /\ threads = <<>>
    /\ idle_sem = 0
    /\ results = <<>>
    /\ yielded = {}
    /\ bulk_exc = FALSE
    /\ filter_pos = 1
    /\ seen_dates = {}
    /\ start_cursor = 0
    /\ pages_fetched = 0
    /\ persist_pos = 1
    /\ prices = <<>>
    /\ chunk_start = 1
    /\ gather = <<>>
    /\ created_ids = <<>>
    /\ files = ExportOnDisk
    /\ clock = 0
    /\ drive \in {<<>>, <<[name |-> 1, parent |-> DefaultFolder, content |-> <<>>]>>,
                  <<[name |-> 2, parent |-> DefaultFolder, content |-> <<>>]>>}
    /\ trace = Trace0

NextUpload ==
    \/ \E path \in {1, 2} : UploadCalled(path)
    \/ DriveFind
    \/ DriveSend

SpecUpload == InitUpload /\ [][NextUpload]_vars

(***************************************************************************)
(* The command entry point run() under every environment.                  *)
(***************************************************************************)
InitRun ==
    /\ tickers \in SeqsUpTo(Tickers, 1)
    /\ batch_size \in 0..1
    /\ source = [t \in Tickers |-> <<>>]
    /\ start_date = {}
    /\ end_date = {}
    /\ session_template = NoSession
    /\ session_factory = FALSE
    /\ max_workers = DefaultMaxWorkers
    /\ notion_batch_size = DefaultNotionBatchSize
    /\ page_size = DefaultPageSize
    /\ max_pages = DefaultMaxPages
    /\ runaway = FALSE
    /\ chunk_impl = "chunked"
    /\ max_retries = DefaultMaxRetries
    /\ drive_folder_id = DefaultFolder
    /\ drive_impl = "client"
    /\ env \in [DOMAIN FullEnv -> EnvValues]
    /\ given = NoArgs
    /\ outcome = NoOutcome
    /\ existing_file_id = NoFile
    /\ sessions = NoSessions
    /\ notion_rows = <<>>
    /\ pc = "run_idle"
    /\ caller = "direct"
    /\ run = 0
    /\ dry_run \in BOOLEAN
    /\ pos = 0
    /\ batch_no = 0
    /\ groups = <<>>
    /\ ticker_batch = <<>>
    /\ prices_by_ticker = <<>>
    /\ filtered = <<>>
    /\ uploaded_files = <<>>
    /\ json_path = 0
    /\ tickers_list = <<>>
    /\ futures = <<>>
    /\ threads = <<>>
    /\ idle_sem = 0
    /\ results = <<>>
    /\ yielded = {}
    /\ bulk_exc = FALSE
    /\ filter_pos = 1
    /\ seen_dates = {}
    /\ start_cursor = 0
    /\ pages_fetched = 0
    /\ persist_pos = 1
    /\ prices = <<>>
    /\ chunk_start = 1
    /\ gather = <<>>
    /\ created_ids = <<>>
    /\ files = <<>>
    /\ clock = 0
    /\ drive = <<>>
    /\ trace = Trace0

NextRun ==
    \/ RunCalled
    \/ \E i \in 1..Len(RequiredEnv) : RequireEnv(i)
    \/ RunBuild
    \/ RunExecute

SpecRun == InitRun /\ [][NextRun]_vars

(***************************************************************************)
(* load_notion_config called on every config file and environment.         *)
(***************************************************************************)
InitConfig ==
    /\ tickers = <<>>
    /\ batch_size = 1
    /\ source = [t \in Tickers |-> <<>>]
    /\ start_date = {}
    /\ end_date = {}
    /\ session_template = NoSession
    /\ session_factory = FALSE
    /\ max_workers = DefaultMaxWorkers
    /\ notion_batch_size = DefaultNotionBatchSize
    /\ page_size = DefaultPageSize
    /\ max_pages = DefaultMaxPages
    /\ runaway = FALSE
    /\ chunk_impl = "chunked"
    /\ max_retries = DefaultMaxRetries
    /\ drive_folder_id = DefaultFolder
    /\ drive_impl = "client"
    /\ env \in [DOMAIN FullEnv -> EnvValues]
    /\ \A key \in DOMAIN env \ {"NOTION_API_KEY", "NOTION_DATABASE_ID"} : env[key] = "set"
    /\ given \in [config_path : BOOLEAN, file_exists : BOOLEAN, valid_json : BOOLEAN,
                 file : [api_key : FileValues, database_id : FileValues]]
    /\ outcome = NoOutcome
    /\ existing_file_id = NoFile
    /\ sessions = NoSessions
    /\ notion_rows = <<>>
    /\ pc = "load_config"
    /\ caller = "direct"
    /\ run = 0
    /\ dry_run = FALSE
    /\ pos = 0
    /\ batch_no = 0
    /\ groups = <<>>
    /\ ticker_batch = <<>>
    /\ prices_by_ticker = <<>>
    /\ filtered = <<>>
    /\ uploaded_files = <<>>
    /\ json_path = 0
    /\ tickers_list = <<>>
    /\ futures = <<>>
    /\ threads = <<>>
    /\ idle_sem = 0
    /\ results = <<>>
    /\ yielded = {}
    /\ bulk_exc = FALSE
    /\ filter_pos = 1
    /\ seen_dates = {}
    /\ start_cursor = 0
    /\ pages_fetched = 0
    /\ persist_pos = 1
    /\ prices = <<>>
    /\ chunk_start = 1
    /\ gather = <<>>
    /\ created_ids = <<>>
    /\ files = <<>>
    /\ clock = 0
    /\ drive = <<>>
    /\ trace = Trace0

NextConfig == LoadNotionConfig

SpecConfig == InitConfig /\ [][NextConfig]_vars

(***************************************************************************)
(* The standalone fetch_prices called with and without a key, against      *)
(* every reply.                                                            *)
(***************************************************************************)
InitPrices ==
    /\ tickers = <<>>
    /\ batch_size = 1
    /\ source = [t \in Tickers |-> <<>>]
    /\ start_date = {}
    /\ end_date = {}
    /\ session_template = NoSession
    /\ session_factory = FALSE
    /\ max_workers = DefaultMaxWorkers
    /\ notion_batch_size = DefaultNotionBatchSize
    /\ page_size = DefaultPageSize
    /\ max_pages = DefaultMaxPages
    /\ runaway = FALSE
    /\ chunk_impl = "chunked"
    /\ max_retries = DefaultMaxRetries
    /\ drive_folder_id = DefaultFolder
    /\ drive_impl = "client"
    /\ env \in [DOMAIN FullEnv -> EnvValues]
    /\ \A key \in DOMAIN env \ {"TIINGO_API_KEY"} : env[key] = "set"
    /\ given \in [ticker : Tickers, api_key : {"none", "empty", "key"}]
    /\ outcome = NoOutcome
    /\ existing_file_id = NoFile
    /\ sessions = NoSessions
    /\ notion_rows = <<>>
    /\ pc = "prices_idle"
    /\ caller = "direct"
    /\ run = 0
    /\ dry_run = FALSE
    /\ pos = 0
    /\ batch_no = 0
    /\ groups = <<>>
    /\ ticker_batch = <<>>
    /\ prices_by_ticker = <<>>
    /\ filtered = <<>>
    /\ uploaded_files = <<>>
    /\ json_path = 0
    /\ tickers_list = <<>>
    /\ futures = <<>>
    /\ threads = <<>>
    /\ idle_sem = 0
    /\ results = <<>>
    /\ yielded = {}
    /\ bulk_exc = FALSE
    /\ filter_pos = 1
    /\ seen_dates = {}
    /\ start_cursor = 0
    /\ pages_fetched = 0
    /\ persist_pos = 1
    /\ prices = <<>>
    /\ chunk_start = 1
    /\ gather = <<>>
    /\ created_ids = <<>>
    /\ files = <<>>
    /\ clock = 0
    /\ drive = <<>>
    /\ trace = Trace0

NextPrices ==
    \/ FetchPricesCalled
    \/ FetchPricesAnswered

SpecPrices == InitPrices /\ [][NextPrices]_vars

(***************************************************************************)
(* The HTTP client's create_price_pages called on any sequence of bars,    *)
(* against a destination that may already hold a row.                      *)
(***************************************************************************)
InitPages ==
    /\ tickers = <<>>
    /\ batch_size = 1
    /\ tickers_list = <<>>
    /\ source = [t \in Tickers |-> <<>>]
    /\ start_date = {}
    /\ end_date = {}
    /\ session_template = NoSession
    /\ session_factory = FALSE
    /\ sessions = NoSessions
    /\ max_workers = DefaultMaxWorkers
    /\ notion_batch_size = DefaultNotionBatchSize
    /\ page_size = DefaultPageSize
    /\ max_pages = DefaultMaxPages
    /\ runaway = FALSE
    /\ chunk_impl = "chunked"
    /\ max_retries = DefaultMaxRetries
    /\ drive_folder_id = DefaultFolder
    /\ drive_impl = "client"
    /\ env = FullEnv
    /\ outcome = NoOutcome
    /\ existing_file_id = NoFile
    /\ \E rows \in SeqsUpTo(StoredRows, 1) : notion_rows = Numbered(rows)
    /\ given = [stored |-> Len(notion_rows)]
    /\ prices \in SeqsUpTo(Bars, MaxRows)
    /\ pc = "pages_idle"
    /\ gather = <<>>
    /\ chunk_start = 1
    /\ created_ids = <<>>
    /\ persist_pos = 1
    /\ caller = "direct"
    /\ run = 0
    /\ dry_run = FALSE
    /\ pos = 0
    /\ batch_no = 0
    /\ groups = <<>>
    /\ ticker_batch = <<>>
    /\ prices_by_ticker = <<>>
    /\ filtered = <<>>
    /\ uploaded_files = <<>>
    /\ json_path = 0
    /\ futures = <<>>
    /\ threads = <<>>
    /\ idle_sem = 0
    /\ results = <<>>
    /\ yielded = {}
    /\ bulk_exc = FALSE
    /\ filter_pos = 1
    /\ seen_dates = {}
    /\ start_cursor = 0
    /\ pages_fetched = 0
    /\ files = <<>>
    /\ clock = 0
    /\ drive = <<>>
    /\ trace = Trace0

NextPages ==
    \/ CreatePagesCalled
    \/ PagePost

SpecPages == InitPages /\ [][NextPages]_vars

(***************************************************************************)
(* Properties.                                                            *)
(***************************************************************************)
BulkPcs == {"bulk_submit", "bulk_wait", "bulk_exit"}

\* The set query_existing_dates hands back for a ticker and the date range:
\* the usable date strings of all matching destination rows.
ExistingDates(ticker) == {row.date : row \in Range(Matching(ticker))} \ {""}

Occurrences(s, x) == Cardinality({i \in 1..Len(s) : s[i] = x})

IsSubsequence(sub, full) ==
    \E at \in [1..Len(sub) -> 1..Len(full)] :
        /\ \A j \in 1..Len(sub) : sub[j] = full[at[j]]
        /\ \A j, k \in 1..Len(sub) : j < k => at[j] < at[k]

BarDates(bars) == [j \in 1..Len(bars) |-> bars[j].date]

\* C1: when _filter_new_prices returns, the filtered mapping has the keys
\* of the fetched mapping, and for every ticker it holds exactly the
\* fetched bars whose ISO date is not among the dates the destination has
\* for that ticker and range -- none with an existing date, every one with
\* a new date, in their original order.
C1_FilterKeepsExactlyNewBars ==
    pc = "returned" =>
        /\ DictKeys(filtered) = DictKeys(prices_by_ticker)
        /\ \A i \in 1..Len(prices_by_ticker) :
            LET fetched == prices_by_ticker[i][2]
                kept == filtered[i][2]
                existing == ExistingDates(prices_by_ticker[i][1])
            IN /\ \A j \in 1..Len(kept) : isoformat(kept[j].date) \notin existing
               /\ \A j \in 1..Len(fetched) :
                    isoformat(fetched[j].date) \notin existing
                        => Occurrences(kept, fetched[j]) = Occurrences(fetched, fetched[j])
               /\ IsSubsequence(kept, fetched)

\* The case of the test: 2024-01-01 exists, 2024-01-01 and 2024-01-02 are
\* fetched, only 2024-01-02 is kept.
C1_Witness ==
    /\ pc = "returned"
    /\ \E i \in 1..Len(prices_by_ticker) :
        /\ BarDates(prices_by_ticker[i][2]) = <<1, 2>>
        /\ ExistingDates(prices_by_ticker[i][1]) = {"2024-01-01"}
        /\ BarDates(filtered[i][2]) = <<2>>

\* C2: in a dry run no row creation is submitted and nothing is uploaded,
\* the destination and the Drive folder stay as they were; yet every batch
\* with a new bar has its export written and closed on disk, and the path
\* is the last of the result list, which holds one path per export written.
C2_DryRunWritesOnly ==
    (run >= 1 /\ dry_run) =>
        /\ trace.in_run.submits = 0
        /\ trace.in_run.uploads = 0
        /\ notion_rows = <<>>
        /\ drive = <<>>
        /\ Len(uploaded_files) = trace.in_run.writes
        /\ \A i \in 1..Len(uploaded_files) : uploaded_files[i] \in DOMAIN files
        /\ (pc = "next_batch" /\ batch_no >= 1 /\ AnyPrices(filtered)) =>
              /\ trace.batch.writes = 1
              /\ json_path \in DOMAIN files
              /\ ~files[json_path].open
              /\ files[json_path].content # <<>>
              /\ uploaded_files # <<>>
              /\ uploaded_files[Len(uploaded_files)] = json_path

\* A dry run over two batches, each with new bars, has returned two paths.
C2_Witness ==
    /\ dry_run
    /\ pc = "done"
    /\ batch_no = 2
    /\ Len(uploaded_files) = 2

\* C3: a batch all of whose symbols filter to zero new bars is left with
\* no row creation submitted, no export written, nothing uploaded and no
\* path recorded, and sync stands at the next batch; the stages after the
\* filter are only ever entered with a new bar in the batch.
C3_EmptyBatchSkipped ==
    /\ (pc = "next_batch" /\ batch_no >= 1 /\ ~AnyPrices(filtered)) =>
          /\ trace.batch.submits = 0
          /\ trace.batch.writes = 0
          /\ trace.batch.uploads = 0
          /\ trace.batch.recorded = 0
    /\ pc \in {"persist", "gather", "write_open", "write_dump", "upload"} => AnyPrices(filtered)

\* A second batch whose fetched bars all exist already has been skipped.
C3_Witness ==
    /\ pc = "next_batch"
    /\ batch_no = 2
    /\ Len(filtered) = Len(prices_by_ticker)
    /\ ~AnyPrices(filtered)
    /\ AnyPrices(prices_by_ticker)
    /\ trace.batch.queries >= 1

\* The (ticker, date) pairs the destination holds.
PairsCreated == {<<row.ticker, row.date>> : row \in Range(notion_rows)}

\* C4: once a non-dry run has completed with every row creation
\* succeeding, a second sync on the same arguments submits no row
\* creation, writes no export, uploads nothing and returns an empty list,
\* and no (ticker, date) has been created twice over the two runs.
C4_RerunIdempotent ==
    (/\ run = 2
     /\ trace.log # <<>>
     /\ trace.log[1].ending = "done"
     /\ ~trace.log[1].dry
     /\ trace.log[1].clean) =>
        /\ trace.in_run.submits = 0
        /\ trace.in_run.writes = 0
        /\ trace.in_run.uploads = 0
        /\ (pc = "done" => uploaded_files = <<>>)
        /\ Cardinality(PairsCreated) = Len(notion_rows)

\* C5: the bulk fetch hands back a mapping only when every fetch it
\* submitted succeeded, and then the mapping has every ticker with its own
\* fetch's bars; once a fetch has failed the call ends by raising, and sync
\* ends there with no query, create, export write, upload or recorded path
\* for that batch and without returning.
C5_BulkFailFast ==
    /\ trace.bulk_outcome = "returned" =>
          /\ \A f \in 1..Len(futures) : futures[f].state = "done"
          /\ Range(DictKeys(results)) = Range(tickers_list)
          /\ \A f \in 1..Len(futures) :
                DictGet(results, futures[f].ticker) = fetch_price_history(futures[f].ticker)
    /\ ((\E f \in 1..Len(futures) : futures[f].state = "failed") /\ pc \notin BulkPcs) =>
          /\ trace.bulk_outcome = "raised"
          /\ pc = "raised"
    /\ trace.raised_at = "fetch" =>
          /\ pc = "raised"
          /\ trace.bulk_outcome = "raised"
          /\ trace.batch = NoOps
          /\ ~trace.returned

\* A second batch's fetch failed for one ticker: sync has raised.
C5_Witness ==
    /\ pc = "raised"
    /\ trace.raised_at = "fetch"
    /\ \E f \in 1..Len(futures) : futures[f].state = "failed"
    /\ \E f \in 1..Len(futures) : futures[f].state = "done"

C7_CreateFailurePropagates ==
    trace.create_raised =>
        /\ pc = "raised"
        /\ trace.raised_at = "persist"
        /\ ~dry_run
        /\ ~trace.returned
        /\ trace.batch.writes = 0
        /\ trace.batch.uploads = 0
        /\ trace.batch.recorded = 0

\* The create of a ticker raised while a later ticker of the batch still
\* had bars to persist.
C7_Witness ==
    /\ trace.create_raised
    /\ \E i \in persist_pos..Len(filtered) : filtered[i][2] # <<>>

\* The export at `path` is closed and lists exactly the tickers of the
\* mapping that have bars, each with the ISO dates of its bars in order.
ExportHolds(path, mapping) ==
    /\ path \in DOMAIN files
    /\ ~files[path].open
    /\ LET content == files[path].content
       IN /\ \A i \in 1..Len(mapping) :
                mapping[i][2] # <<>> =>
                    \E j \in 1..Len(content) :
                        /\ content[j][1] = mapping[i][1]
                        /\ [n \in 1..Len(content[j][2]) |-> content[j][2][n].date]
                             = [n \in 1..Len(mapping[i][2]) |-> isoformat(mapping[i][2][n].date)]
          /\ \A j \in 1..Len(content) :
                \E i \in 1..Len(mapping) : mapping[i][1] = content[j][1] /\ mapping[i][2] # <<>>

\* C8: the upload of a batch is only under way or behind once the batch's
\* export is written and closed with the batch's filtered bars; when the
\* upload raises, sync raises and that file is still there.
C8_UploadAfterWrite ==
    /\ pc = "upload" => (ExportHolds(json_path, filtered) /\ trace.batch.writes = 1)
    /\ trace.batch.uploads >= 1 => ExportHolds(json_path, filtered)
    /\ trace.raised_at = "upload" =>
          /\ pc = "raised"
          /\ ~trace.returned
          /\ ExportHolds(json_path, filtered)

\* The upload of a batch with bars raised.
C8_Witness ==
    /\ trace.raised_at = "upload"
    /\ AnyPrices(filtered)
    /\ files[json_path].content # <<>>

\* C9: work of a bulk fetch -- a queued or running fetch, a busy or live
\* executor thread -- exists only while sync is inside the bulk fetch of
\* the batch that submitted it, and a pending row creation only while sync
\* awaits its gather: nothing of a batch is left running when the next
\* stage or the next batch begins.
C9_BatchesSequential ==
    /\ \A f \in 1..Len(futures) :
          /\ futures[f].batch = batch_no
          /\ ~Finished(f) => pc \in BulkPcs
    /\ threads # <<>> => pc \in BulkPcs
    /\ (\E i \in 1..Len(gather) : gather[i].st = "pending") => pc = "gather"

\* A worker of the second batch is fetching.
C9_Witness ==
    /\ batch_no = 2
    /\ pc = "bulk_wait"
    /\ \E k \in 1..Len(threads) : threads[k].task # NoTask

\* The bars whose submission was answered with an id, as input indices.
Succeeded == {trace.submitted[j].index : j \in {n \in 1..Len(trace.submitted) : trace.submitted[n].id # 0}}

AnsweredId(index) ==
    trace.submitted[CHOOSE j \in 1..Len(trace.submitted) : trace.submitted[j].index = index].id

\* C10: when create_price_rows returns, every bar was submitted exactly
\* once, and the list returned holds the ids answered for exactly the bars
\* whose submission succeeded, in input order, each id naming the row of
\* its bar; the call raises only when its await was cancelled, never for
\* a row's failure.
C10_PartialSuccess ==
    /\ pc = "returned" =>
          /\ Len(trace.submitted) = Len(prices)
          /\ {trace.submitted[j].index : j \in 1..Len(trace.submitted)} = 1..Len(prices)
          /\ Len(created_ids) = Cardinality(Succeeded)
          /\ \A r \in 1..Len(created_ids) :
                \E index \in Succeeded :
                    /\ Cardinality({other \in Succeeded : other < index}) = r - 1
                    /\ created_ids[r] = AnsweredId(index)
                    /\ notion_rows[created_ids[r]].date = isoformat(prices[index].date)
    /\ pc = "raised" => trace.interrupted

\* Three bars in two chunks: the first failed, the third succeeded.
C10_Witness ==
    /\ pc = "returned"
    /\ Len(prices) = 3
    /\ effective_batch_size = 2
    /\ 1 \notin Succeeded
    /\ 3 \in Succeeded
    /\ Len(created_ids) = 2

\* C11: an existing-dates query issues at most the configured maximum
\* number of page requests, and with that many issued it has ended, even
\* when every response reports that more pages remain.
C11_PageRequestsCapped ==
    runaway =>
        /\ trace.requests <= max_pages
        /\ trace.requests = max_pages => pc \in {"returned", "raised"}

\* C12: once a page request of an existing-dates query has failed, the
\* query has raised and handed no set to its caller, whatever it had
\* gathered from earlier pages; the ticker being filtered gets no filtered
\* entry, and every entry the filter did make was filtered against the
\* whole set of the destination's dates for its ticker.
C12_FailedQueryHandsNothing ==
    /\ trace.query_failed =>
          /\ pc = "raised"
          /\ trace.handed = {}
          /\ Len(filtered) = filter_pos - 1
          /\ Len(filtered) < Len(prices_by_ticker)
    /\ \A i \in 1..Len(filtered) :
          filtered[i][2] = new_prices(prices_by_ticker[i][2], ExistingDates(filtered[i][1]))

\* A later page request failed after an earlier page had brought a date.
C12_Witness ==
    /\ trace.query_failed
    /\ trace.requests >= 2
    /\ seen_dates # {}
    /\ seen_dates # ExistingDates(tickers_list[1])

RECURSIVE Flatten(_)
Flatten(gs) == IF gs = <<>> THEN <<>> ELSE Flatten(SubSeq(gs, 1, Len(gs) - 1)) \o gs[Len(gs)]

\* C13: for every input and every size of at least one, the groups yielded
\* so far concatenate to a prefix of the input and, once the generator has
\* stopped, to the input itself; no group is empty and every group but the
\* last yielded at the end has exactly `size` items.
C13_GroupsPartitionInput ==
    batch_size >= 1 =>
        /\ Len(Flatten(groups)) <= Len(tickers)
        /\ Flatten(groups) = SubSeq(tickers, 1, Len(Flatten(groups)))
        /\ pc = "chunk_stopped" => Flatten(groups) = tickers
        /\ \A i \in 1..Len(groups) :
              /\ groups[i] # <<>>
              /\ Len(groups[i]) <= batch_size
              /\ (i < Len(groups) \/ (pc = "chunk_yielded" /\ pos < Len(tickers)))
                    => Len(groups[i]) = batch_size

\* Seven items with size 3 have been cut into groups of 3, 3 and 1.
C13_Witness ==
    /\ chunk_impl = "chunked"
    /\ pc = "chunk_stopped"
    /\ Len(tickers) = 7
    /\ batch_size = 3
    /\ [i \in 1..Len(groups) |-> Len(groups[i])] = <<3, 3, 1>>

\* C14: with a size below one the first step of either helper raises:
\* no group has been yielded and no item of the input consumed; with a
\* size of at least one the helper never raises.
C14_InvalidSizeRejected ==
    /\ (batch_size < 1 /\ pc # "chunk_new") =>
          /\ pc = "raised"
          /\ groups = <<>>
          /\ pos = 0
    /\ pc = "raised" => batch_size < 1

\* _chunked over a non-empty input with size zero has raised.
C14_Witness ==
    /\ pc = "raised"
    /\ chunk_impl = "_chunked"
    /\ batch_size = 0
    /\ tickers # <<>>

\* C15: whenever chunked has just yielded its k-th group, the items it has
\* taken from the input are exactly those of the k groups yielded: none is
\* read ahead, none is held back in a buffer.
C15_ChunkedIsLazy ==
    (chunk_impl = "chunked" /\ pc \in {"chunk_new", "chunk_yielded"}) =>
        /\ pos = Len(Flatten(groups))
        /\ SubSeq(tickers, 1, pos) = Flatten(groups)

\* The first group has been yielded with two more groups' worth of input
\* still unread.
C15_Witness ==
    /\ chunk_impl = "chunked"
    /\ pc = "chunk_yielded"
    /\ Len(groups) = 1
    /\ pos = batch_size
    /\ Len(tickers) >= pos + 2 * batch_size

\* C16: no step of the filter changes the fetched mapping or the rows of
\* the destination, and when the second of two calls on the same mapping
\* returns, its result is the result of the first.
C16_FilterIdempotentReadOnly ==
    [][/\ prices_by_ticker' = prices_by_ticker
       /\ notion_rows' = notion_rows
       /\ (pc' = "returned" /\ trace'.first_pass # {}) => trace'.first_pass = {filtered'}]_vars

\* The second call has returned for two tickers, with a bar dropped and a
\* bar kept.
C16_Witness ==
    /\ pc = "returned"
    /\ trace.first_pass = {filtered}
    /\ Len(filtered) = 2
    /\ filtered # prices_by_ticker
    /\ AnyPrices(filtered)

\* Nothing of a batch has happened in the run: no group cut, no fetch
\* submitted, no query, create, export write, upload or recorded path.
NoBatchActivity ==
    /\ groups = <<>>
    /\ batch_no = 0
    /\ futures = <<>>
    /\ threads = <<>>
    /\ trace.in_run = NoOps
    /\ uploaded_files = <<>>

\* C17: a sync over zero tickers with a valid batch size processes no
\* batch -- no fetch, query, create, export write or upload -- and ends by
\* returning the empty list.
C17_NoTickersNoBatches ==
    (run >= 1 /\ tickers = <<>> /\ batch_size >= 1) =>
        /\ pc \in {"next_batch", "done"}
        /\ NoBatchActivity
        /\ trace.raised_at = "none"
        /\ pc = "done" => trace.returned

\* A run over zero tickers has returned.
C17_Witness ==
    /\ tickers = <<>>
    /\ batch_size >= 1
    /\ pc = "done"
    /\ trace.returned
    /\ uploaded_files = <<>>

\* C18: a sync configured with a batch size below one ends by raising
\* from the batching helper, whatever the tickers: no fetch, query,
\* create, export write or upload has been issued and no result returned.
C18_BadBatchSizeBeforeNetwork ==
    (run >= 1 /\ batch_size < 1) =>
        /\ pc \in {"next_batch", "raised"}
        /\ NoBatchActivity
        /\ ~trace.returned
        /\ pc = "raised" => trace.raised_at = "chunked"

\* A run over two tickers with batch size zero has raised.
C18_Witness ==
    /\ batch_size = 0
    /\ Len(tickers) = 2
    /\ pc = "raised"
    /\ trace.raised_at = "chunked"

Distinct(s) == \A i, j \in 1..Len(s) : s[i] = s[j] => i = j
CeilDiv(n, b) == (n + b - 1) \div b
\* The number of the batch that holds the i-th ticker.
BatchOf(i) == ((i - 1) \div batch_size) + 1
\* The export files that list the ticker as a key.
FilesWith(ticker) == {path \in DOMAIN files : DictHas(files[path].content, ticker)}

\* A run over n >= 1 distinct tickers with batch size b >= 1 has returned,
\* every ticker having bars at the provider and no call of the fetcher
\* having failed.
CleanRunReturned ==
    /\ pc = "done"
    /\ tickers # <<>>
    /\ Distinct(tickers)
    /\ batch_size >= 1
    /\ \A t \in Range(tickers) : source[t] # <<>>
    /\ \A c \in 1..Len(trace.calls) : trace.calls[c].ok

\* C19: when a run over n >= 1 distinct tickers with batch size b >= 1 and
\* a fetcher that never fails has returned, there are exactly ceil(n/b)
\* export files, every ticker has been handed to the fetcher in a batch,
\* and every ticker is a key of exactly one file, the file of its batch.
C19_OneFilePerBatch ==
    CleanRunReturned =>
        /\ Cardinality(DOMAIN files) = CeilDiv(Len(tickers), batch_size)
        /\ Len(uploaded_files) = CeilDiv(Len(tickers), batch_size)
        /\ Flatten(groups) = tickers
        /\ \A i \in 1..Len(tickers) :
              /\ Cardinality(FilesWith(tickers[i])) = 1
              /\ uploaded_files[BatchOf(i)] \in FilesWith(tickers[i])

\* The second batch of a run's fetches all returned and its file is
\* written.
StandaloneTwoBatchesWritten ==
    /\ CleanRunReturned
    /\ Len(groups) = 2
    /\ Len(trace.calls) = 2

\* The bars are in ascending order of date.
AscendingByDate(bars) == \A i, j \in 1..Len(bars) : i < j => bars[i].date <= bars[j].date

\* C20: whatever the order of the provider's response, a fetch that
\* succeeds returns bars in ascending order of date, all for the requested
\* ticker, as many as the response has items, and for every day as many bars
\* of that date as the response has items of that day.
C20_FetchSortedAndComplete ==
    \A f \in 1..Len(futures) :
        futures[f].state = "done" =>
            LET response == ProviderPayload(futures[f].ticker)
                bars == futures[f].result
            IN /\ AscendingByDate(bars)
               /\ Len(bars) = Len(response)
               /\ \A i \in 1..Len(bars) : bars[i].ticker = futures[f].ticker
               /\ \A d \in Dates :
                     Cardinality({i \in 1..Len(bars) : bars[i].date = d})
                       = Cardinality({i \in 1..Len(response) : response[i].day = d})

\* A fetch has returned for a response of three items that lists a later
\* day ahead of an earlier one.
C20_Witness ==
    \E f \in 1..Len(futures) :
        /\ futures[f].state = "done"
        /\ LET response == ProviderPayload(futures[f].ticker)
           IN /\ Len(response) = 3
              /\ response[1].day > response[2].day
              /\ Len(futures[f].result) = 3

\* C21: the bars a successful fetch returns for a ticker carry pairwise
\* different dates, whatever the provider's response contains.
C21_FetchedDatesUnique ==
    \A f \in 1..Len(futures) :
        futures[f].state = "done" => Distinct(BarDates(futures[f].result))

\* C22: whichever uploader is used, the folder never holds two objects of
\* one name, and once an upload has succeeded it holds exactly one object
\* named after the uploaded file.
C22_UploadUpsertsByName ==
    /\ \A name \in {1, 2} : Cardinality(FindExisting(name)) <= 1
    /\ pc = "uploaded" => Cardinality(FindExisting(json_path)) = 1

\* C23: an upload called with an empty folder identifier, or for a local
\* file that does not exist, has raised with no remote request issued and
\* the folder as it was.
C23_BadUploadBeforeRequests ==
    (trace.upload_calls >= 1 /\ (drive_folder_id = "" \/ ~Uploadable(json_path))) =>
        /\ pc = "upload_raised"
        /\ trace.drive_requests = 0
        /\ drive = trace.drive_before

\* C24: when a run that is not a dry run has raised at the persist stage
\* of a batch with new bars, the export of that batch has been written: it
\* is on disk, closed, and holds the batch's filtered bars.
C24_ExportDespitePersistFailure ==
    (pc = "raised" /\ trace.raised_at = "persist" /\ ~dry_run /\ AnyPrices(filtered)) =>
        /\ trace.batch.writes = 1
        /\ ExportHolds(json_path, filtered)

\* Some required environment variable is not set, or is empty.
EnvIncomplete == \E key \in DOMAIN env : env[key] # "set"

DriveEnvUnset ==
    /\ \A i \in 1..3 : env[RequiredEnv[i]] = "set"
    /\ \A i \in 4..5 : env[RequiredEnv[i]] = "unset"

\* C26: a --dry-run invocation with the Tiingo and Notion variables set
\* and the Drive variables unset is not refused for its environment: run
\* never raises from _require_env.
C26_DryRunNeedsNoDriveEnv ==
    (dry_run /\ DriveEnvUnset) => trace.raised_at # "require_env"

\* C27: when the config file and the environment both supply api_key and
\* database_id, the configuration load_notion_config returns carries the
\* file's values.
C27_FileBeforeEnvironment ==
    (/\ pc = "loaded"
     /\ given.config_path /\ given.file_exists /\ given.valid_json
     /\ given.file.api_key = "value" /\ given.file.database_id = "value"
     /\ env["NOTION_API_KEY"] = "set" /\ env["NOTION_DATABASE_ID"] = "set") =>
        /\ outcome.kind = "config"
        /\ outcome.api_key = "file"
        /\ outcome.database_id = "file"

\* C28: a finished call of the standalone fetch_prices has returned data
\* only with a token, status 200 and a JSON list as body; without a token
\* it has raised RuntimeError with no request sent; and a reply of status
\* 401, 404 or 500, or with a JSON body that is not a list, has made it
\* raise TiingoApiError.
C28_FetchPricesReturnsOnlyLists ==
    pc = "prices_done" =>
        /\ outcome.kind = "returned" =>
              (HasToken /\ outcome.status = 200 /\ outcome.body = "list")
        /\ ~HasToken => (outcome.kind = "RuntimeError" /\ outcome.requests = 0)
        /\ (HasToken /\ outcome.kind # "transport") =>
              /\ outcome.requests = 1
              /\ outcome.status \in {401, 404, 500} => outcome.kind = "TiingoApiError"
              /\ (outcome.status = 200 /\ outcome.body = "object") =>
                    outcome.kind = "TiingoApiError"

\* A call with a key met status 401 with a list as body and raised
\* TiingoApiError.
C28_Witness ==
    /\ pc = "prices_done"
    /\ given.api_key = "key"
    /\ outcome.kind = "TiingoApiError"
    /\ outcome.status = 401
    /\ outcome.body = "list"

\* The bars of a mapping, as (position of the ticker, position of the bar).
BarsIn(mapping) ==
    {ij \in (1..Len(mapping)) \X (1..MaxBars) : ij[2] <= Len(mapping[ij[1]][2])}

\* C29: within a batch of sync nothing of a later stage is done while an
\* earlier one is under way: during the bulk fetch the batch has no query,
\* create, export write, upload or recorded path; a query is issued only
\* after the bulk fetch has returned with every fetch finished; a create
\* only once every symbol of the batch is filtered; the export is written
\* only once every new bar of the batch has had its create; the upload
\* only after the one export write; the path is recorded last. A dry run
\* has no create and no upload and records the path after the write.
C29_StagesInOrder ==
    run >= 1 =>
        /\ pc \in BulkPcs => trace.batch = NoOps
        /\ trace.batch.queries >= 1 =>
              /\ trace.bulk_outcome = "returned"
              /\ pc \notin BulkPcs
              /\ \A f \in 1..Len(futures) : Finished(f)
        /\ pc = "query" =>
              /\ trace.batch.submits = 0
              /\ trace.batch.writes = 0
              /\ trace.batch.uploads = 0
              /\ trace.batch.recorded = 0
        /\ (trace.batch.submits >= 1 \/ pc \in {"persist", "gather"}) =>
              /\ ~dry_run
              /\ pc # "query"
              /\ trace.batch.queries >= Len(prices_by_ticker)
              /\ DictKeys(filtered) = DictKeys(prices_by_ticker)
        /\ pc \in {"persist", "gather"} =>
              /\ trace.batch.writes = 0
              /\ trace.batch.uploads = 0
              /\ trace.batch.recorded = 0
        /\ (trace.batch.writes >= 1 \/ pc \in {"write_open", "write_dump"}) =>
              /\ DictKeys(filtered) = DictKeys(prices_by_ticker)
              /\ gather = <<>>
              /\ ~dry_run => trace.batch.submits = Cardinality(BarsIn(filtered))
        /\ pc \in {"write_open", "write_dump"} =>
              /\ trace.batch.writes = 0
              /\ trace.batch.uploads = 0
              /\ trace.batch.recorded = 0
        /\ (trace.batch.uploads >= 1 \/ pc = "upload") =>
              /\ ~dry_run
              /\ trace.batch.writes = 1
        /\ pc = "upload" => (trace.batch.uploads = 0 /\ trace.batch.recorded = 0)
        /\ trace.batch.recorded >= 1 =>
              /\ trace.batch.recorded = 1
              /\ trace.batch.writes = 1
              /\ trace.batch.uploads = (IF dry_run THEN 0 ELSE 1)
              /\ uploaded_files # <<>>
              /\ uploaded_files[Len(uploaded_files)] = json_path
        /\ dry_run => (trace.batch.submits = 0 /\ trace.batch.uploads = 0)

\* The second batch of a run that persists went through every stage: two
\* symbols queried, creates for bars of both, one export, one upload, and
\* the path recorded.
C29_Witness ==
    /\ ~dry_run
    /\ batch_no = 2
    /\ pc = "next_batch"
    /\ trace.batch.queries >= 1
    /\ trace.batch.submits >= 1
    /\ trace.batch.writes = 1
    /\ trace.batch.uploads = 1
    /\ trace.batch.recorded = 1

\* C30: once fetch_price_history_bulk has returned or raised, every ticker
\* it was given has had its fetch submitted and every one of those fetches
\* has ended, no executor thread is busy or alive; this includes the
\* fetches that were queued or running when a sibling's failure left the
\* loop over the completed ones.
C30_BulkFetchJoined ==
    trace.bulk_outcome \in {"returned", "raised"} =>
        /\ Len(futures) = Len(tickers_list)
        /\ \A f \in 1..Len(futures) : futures[f].state \in {"done", "failed"}
        /\ \A k \in 1..Len(threads) : threads[k].task = NoTask
        /\ threads = <<>>
        /\ \A g \in trace.left_behind : Finished(g)

\* The call has raised for a failed fetch that was collected while the
\* fetch of the other ticker had not ended.
C30_Witness ==
    /\ trace.bulk_outcome = "raised"
    /\ trace.left_behind # {}
    /\ \E f \in yielded : futures[f].state = "failed"

\* The per-symbol fetches in flight: taken by a thread and not ended.
InFlight == {f \in 1..Len(futures) : futures[f].state = "running"}

\* C31: at every moment of a bulk fetch at most max_workers fetches are in
\* flight and at most max_workers executor threads exist, also with more
\* symbols than workers; once the call has returned, the result has every
\* distinct input symbol and no other key, each with the bars that
\* symbol's fetch returned.
C31_BoundedFanOut ==
    /\ Cardinality(InFlight) <= max_workers
    /\ Len(threads) <= max_workers
    /\ Cardinality({k \in 1..Len(threads) : threads[k].task # NoTask}) = Cardinality(InFlight)
    /\ trace.bulk_outcome = "returned" =>
          /\ Distinct(DictKeys(results))
          /\ Range(DictKeys(results)) = Range(tickers_list)
          /\ \A t \in Range(tickers_list) :
                \E f \in 1..Len(futures) :
                    /\ futures[f].ticker = t
                    /\ futures[f].state = "done"
                    /\ DictGet(results, t) = futures[f].result

\* With one worker and two symbols, one fetch is in flight while the other
\* waits in the queue.
C31_Witness ==
    /\ max_workers = 1
    /\ Len(tickers_list) = 2
    /\ Cardinality(InFlight) = 1
    /\ \E f \in 1..Len(futures) : futures[f].state = "pending"

\* The sessions built by executor threads, as indices of `sessions`.
BuiltSessions == {s \in 1..Len(sessions) : sessions[s].kind # "template"}

C33_ExportPathsDistinct ==
    run >= 1 =>
        /\ Distinct(uploaded_files)
        /\ Cardinality({path \in DOMAIN files : ~files[path].open}) = trace.in_run.writes

\* The batches of the run in which some symbol has a bar at the provider:
\* with the destination empty at the start and no symbol met before, the
\* batches that have a new bar.
BatchesWithBars ==
    {g \in 1..Len(groups) : \E t \in Range(groups[g]) : fetch_price_history(t) # <<>>}

\* A batch that has been worked off has one path recorded, the one of its
\* export and the last of the list, when it had a new bar, and none when it
\* filtered to nothing; the list has one entry per path recorded.
OnePathPerBatchWithNewBars ==
    /\ Len(uploaded_files) = trace.in_run.recorded
    /\ (pc = "next_batch" /\ batch_no >= 1) =>
          /\ trace.batch.recorded = (IF AnyPrices(filtered) THEN 1 ELSE 0)
          /\ AnyPrices(filtered) => uploaded_files[Len(uploaded_files)] = json_path

\* No symbol of the input falls into two batches.
NoSymbolInTwoBatches ==
    \A i, j \in 1..Len(tickers) : tickers[i] = tickers[j] => BatchOf(i) = BatchOf(j)

\* C34, as stated: every batch gets one path when it has a new bar and none
\* otherwise, in batch order, and the list sync returns is as long in a dry
\* run as in a run that persists: as long as the number of batches that
\* have a bar new to the destination the run started from.
C34_SamePathsDryOrNot ==
    run >= 1 =>
        /\ OnePathPerBatchWithNewBars
        /\ pc = "done" => Len(uploaded_files) = Cardinality(BatchesWithBars)

\* C34, amended: the same, the equality of a dry and a persisting run's
\* count being claimed for inputs that put no symbol into two batches.
C34_SamePathsForDistinctSymbols ==
    run >= 1 =>
        /\ OnePathPerBatchWithNewBars
        /\ (pc = "done" /\ NoSymbolInTwoBatches) =>
              Len(uploaded_files) = Cardinality(BatchesWithBars)

\* A run that persists has returned one path for two batches of different
\* symbols, one of which had no bar.
C34_Witness ==
    /\ pc = "done"
    /\ ~dry_run
    /\ Len(groups) = 2
    /\ NoSymbolInTwoBatches
    /\ Len(uploaded_files) = 1
    /\ trace.in_run.submits >= 1

\* The symbols of a mapping that have at least one bar, in mapping order.
SymbolsWithBars(mapping) ==
    LET kept == SelectSeq(mapping, LAMBDA item : item[2] # <<>>)
    IN [i \in 1..Len(kept) |-> kept[i][1]]

\* C35: once the export of a batch is written, the file is closed, its
\* keys are exactly the symbols of the batch with a filtered bar, each
\* once, and each symbol's list has one entry per filtered bar, in order,
\* with that bar's symbol, date and close; this in a dry run as in a run
\* that persists, and whatever number of row creations failed.
C35_ExportIsFilteredBars ==
    (run >= 1 /\ trace.batch.writes = 1) =>
        /\ json_path \in DOMAIN files
        /\ ~files[json_path].open
        /\ LET content == files[json_path].content
           IN /\ DictKeys(content) = SymbolsWithBars(filtered)
              /\ \A i \in 1..Len(filtered) :
                    filtered[i][2] # <<>> =>
                        LET bars == filtered[i][2]
                            listed == DictGet(content, filtered[i][1])
                        IN /\ Len(listed) = Len(bars)
                           /\ \A n \in 1..Len(bars) :
                                 /\ listed[n].ticker = bars[n].ticker
                                 /\ listed[n].date = isoformat(bars[n].date)
                                 /\ listed[n].close = bars[n].close

\* A persisting run wrote the export of a batch of two symbols of which one
\* had no new bar, after a row creation of the batch had failed.
C35_Witness ==
    /\ ~dry_run
    /\ trace.batch.writes = 1
    /\ trace.row_failures >= 1
    /\ Len(filtered) = 2
    /\ \E i \in 1..Len(filtered) : filtered[i][2] = <<>>
    /\ Len(files[json_path].content) = 1

\* The pages in which the destination serves the rows matching the ticker.
PagesServed(ticker) == Max(1, CeilDiv(Len(Matching(ticker)), effective_page_size))

\* C36: an existing-dates query that has returned, against a destination
\* whose pages end, has issued one request per page the destination serves
\* and has handed back exactly the dates of all the rows stored for the
\* ticker.
C36_QueryCoversAllPages ==
    (~runaway /\ pc = "returned" /\ trace.handed # {}) =>
        /\ trace.requests = PagesServed(tickers_list[1])
        /\ trace.handed = {ExistingDates(tickers_list[1])}

\* The calls of the fetcher for the same ticker of the same batch as call
\* c, up to and including c.
AttemptsUpTo(c) ==
    {d \in 1..c : trace.calls[d].batch = trace.calls[c].batch /\ trace.calls[d].at = trace.calls[c].at}

\* C37: with max_retries >= 1, the fetcher is called at most max_retries
\* times for a ticker; a call that returned is the last for its ticker; a
\* k-th failed attempt is followed by a sleep of 2^(k-1) backoff units when
\* k < max_retries and by none when k = max_retries, and then the run has
\* raised; the run raises from a fetch in no other case.
C37_RetryBounded ==
    max_retries >= 1 =>
        /\ \A c \in 1..Len(trace.calls) :
              LET k == Cardinality(AttemptsUpTo(c))
                  call == trace.calls[c]
              IN /\ k <= max_retries
                 /\ \A d \in AttemptsUpTo(c) : d < c => ~trace.calls[d].ok
                 /\ call.ok => call.slept = 0
                 /\ (~call.ok /\ k < max_retries) => call.slept = 2 ^ (k - 1)
                 /\ (~call.ok /\ k = max_retries) =>
                       /\ call.slept = 0
                       /\ c = Len(trace.calls)
                       /\ pc = "raised"
                       /\ trace.raised_at = "fetcher"
        /\ (pc = "raised" /\ trace.calls # <<>>) =>
              LET last == Len(trace.calls)
              IN /\ ~trace.calls[last].ok
                 /\ Cardinality(AttemptsUpTo(last)) = max_retries

\* With three attempts allowed, a ticker's fetch failed twice, with sleeps
\* of one and two units, and returned on the third attempt.
C37_Witness ==
    /\ max_retries = 3
    /\ Len(trace.calls) >= 3
    /\ \E c \in 3..Len(trace.calls) :
          /\ Cardinality(AttemptsUpTo(c)) = 3
          /\ trace.calls[c].ok
          /\ trace.calls[c - 1].slept = 2
          /\ trace.calls[c - 2].slept = 1

C38_RunDrivesSync ==
    (pc = "run_done" /\ ~dry_run /\ tickers # <<>> /\ size_accepted(batch_size)) =>
        trace.run_effects.price = Len(tickers)

\* C40: a post that fails ends create_price_pages by raising, with no list
\* of ids handed to the caller; the bars before the failing one were posted
\* in input order, each once, and their rows are in the destination after
\* the rows that were there before; the failing bar has no row and no bar
\* after it was posted. A call that returns has created a row for every
\* bar and returns their ids in order.
C40_StopsAtFirstFailure ==
    LET posts == trace.submitted
        n == Len(posts)
    IN /\ (\E j \in 1..n : posts[j].id = 0) => pc = "pages_raised"
       /\ pc = "pages_raised" =>
             /\ n \in 1..Len(prices)
             /\ posts[n].id = 0
             /\ \A j \in 1..n : posts[j].index = j
             /\ \A j \in 1..(n - 1) :
                   /\ posts[j].id = given.stored + j
                   /\ notion_rows[posts[j].id].date = isoformat(prices[j].date)
                   /\ notion_rows[posts[j].id].ticker = prices[j].ticker
             /\ Len(notion_rows) = given.stored + n - 1
             /\ outcome = [kind |-> "HTTPError"]
       /\ pc = "pages_returned" =>
             /\ n = Len(prices)
             /\ Len(notion_rows) = given.stored + Len(prices)
             /\ outcome = [kind |-> "returned", ids |-> [j \in 1..n |-> given.stored + j]]

\* Of three bars the first was created and the second failed, against a
\* destination that held a row: the call raised with the third not posted.
C40_Witness ==
    /\ pc = "pages_raised"
    /\ Len(prices) = 3
    /\ given.stored = 1
    /\ Len(trace.submitted) = 2
    /\ Len(notion_rows) = 2

====
